---- MODULE Spec2Model ----
(***************************************************************************)
(* State-machine model of gst/vaapi/gstvaapipostprocess.c: the VA-API     *)
(* video postprocessing element (deinterlacing state machine, dirty-flag  *)
(* engine, caps negotiation and the per-frame pipeline).                  *)
(*                                                                         *)
(* pp   : the GstVaapiPostprocess instance (its fields, plus the          *)
(*        GstBaseTransform passthrough/negotiated state it drives).       *)
(* last : what the most recent entry point did that is observable from    *)
(*        outside: its return value, the frames it emitted, the calls it  *)
(*        made on the Filter Engine.                                       *)
(***************************************************************************)
EXTENDS Integers, Sequences, FiniteSets, TLC

VARIABLES pp, last

vars == <<pp, last>>

-----------------------------------------------------------------------------
(* Enumerations                                                            *)

\* GstVaapiDeinterlaceMethod
Methods == {"none", "bob", "weave", "motion-adaptive", "motion-compensated"}

\* GstVaapiDeinterlaceModeEss (mode_types[])
Modes == {"auto", "interlaced", "disabled"}

\* GstVideoInterlaceMode
InterlaceModes == {"progressive", "interleaved", "mixed", "fields", "alternate"}

\* GstVaapiPostprocessFlags: one dirty bit per operation, plus the custom SIZE bit
FlagNames ==
  {"FORMAT", "CROP", "DENOISE", "SHARPEN", "HUE", "SATURATION", "BRIGHTNESS",
   "CONTRAST", "DEINTERLACE", "SCALE", "VIDEO_DIRECTION", "HDR_TONE_MAP",
   "SKINTONE", "SKINTONE_LEVEL", "SIZE"}

\* GstFlowReturn values a pad push can give back
FlowReturns == {"OK", "FLUSHING", "ERROR", "NOT_SUPPORTED", "EOS"}

GST_SECOND == 1000000000

GST_CLOCK_TIME_NONE == -1

\* G_N_ELEMENTS (ds->buffers): GST_VAAPI_DEINTERLACE_MAX_REFERENCES
DS_CAPACITY == 2

\* an empty slot of ds->buffers[]; a filled one records the buffer's TFF and
\* DISCONT flags and its timestamp
NoBuffer == [present |-> FALSE, tff |-> FALSE, discont |-> FALSE, pts |-> 0]

-----------------------------------------------------------------------------
(* Bounds of the model                                                     *)

\* iterations of the for (;;) loop of set_best_deint_method that are followed
LadderFuel == 5

\* the presentation timestamp, in ns, of the buffers sent through the element
InputPts == 1000

-----------------------------------------------------------------------------
(* Deinterlace history: GstVaapiDeinterlaceStateEss                        *)

ds_init ==
  [buffers |-> [i \in 0..(DS_CAPACITY - 1) |-> NoBuffer],
   buffers_index |-> 0,
   num_surfaces |-> 0,
   deint |-> FALSE,
   tff |-> FALSE]

\* ds->surfaces[] is written by ds_set_surfaces and read only later in the
\* call that wrote it (lines 960 and 1020), so it is not kept between calls:
\* ds_surfaces gives its first num_surfaces entries right after ds_set_surfaces.
\* a reset that clears the counters and flags and keeps the buffers
ds_reset_keep_buffers(ds) ==
  [ds EXCEPT !.buffers_index = 0, !.num_surfaces = 0, !.deint = FALSE,
             !.tff = FALSE]

ds_reset(ds) ==
  [ds EXCEPT !.buffers = [i \in 0..(DS_CAPACITY - 1) |-> NoBuffer],
             !.buffers_index = 0,
             !.num_surfaces = 0,
             !.deint = FALSE,
             !.tff = FALSE]

\* an add that overwrites the newest entry instead of the oldest
ds_add_buffer_newest(ds, buf) ==
  [ds EXCEPT !.buffers[(ds.buffers_index + DS_CAPACITY - 1) % DS_CAPACITY] = buf,
             !.buffers_index = (ds.buffers_index + 1) % DS_CAPACITY]

ds_add_buffer(ds, buf) ==
  [ds EXCEPT !.buffers[ds.buffers_index] = buf,
             !.buffers_index = (ds.buffers_index + 1) % DS_CAPACITY]

\* a lookup whose index increases towards newer buffers
ds_get_buffer_oldest_first(ds, index) ==
  ds.buffers[(ds.buffers_index + index) % DS_CAPACITY]

ds_get_buffer(ds, index) ==
  LET n == ds.buffers_index + DS_CAPACITY - index - 1
  IN  ds.buffers[n % DS_CAPACITY]

RECURSIVE ds_collect(_, _)
ds_collect(ds, i) ==
  IF i >= DS_CAPACITY THEN <<>>
  ELSE IF ds_get_buffer(ds, i) = NoBuffer THEN <<>>
  ELSE <<ds_get_buffer(ds, i)>> \o ds_collect(ds, i + 1)

ds_surfaces(ds) == ds_collect(ds, 0)

ds_set_surfaces(ds) ==
  [ds EXCEPT !.num_surfaces = Len(ds_surfaces(ds))]

-----------------------------------------------------------------------------
(* Deinterlacing decision and method ladder                                *)

\* a decision that does not look at the buffer's interlaced flag
should_deinterlace_buffer_mixed_always(flags, mode, interlace_mode, buf_interlaced) ==
  IF ("DEINTERLACE" \notin flags) \/ mode = "disabled" THEN FALSE
  ELSE IF mode = "interlaced" THEN TRUE
  ELSE interlace_mode \in {"interleaved", "mixed"}

should_deinterlace_buffer(flags, mode, interlace_mode, buf_interlaced) ==
  IF ("DEINTERLACE" \notin flags) \/ mode = "disabled" THEN FALSE
  ELSE IF mode = "interlaced" THEN TRUE
  ELSE CASE interlace_mode = "interleaved" -> TRUE
         [] interlace_mode = "progressive" -> FALSE
         [] interlace_mode = "mixed" -> buf_interlaced
         [] OTHER -> FALSE

deint_method_is_advanced(deint_method) ==
  deint_method \in {"motion-adaptive", "motion-compensated"}

\* a successor function under which the two advanced methods alternate
get_next_deint_method_cycle(deint_method) ==
  CASE deint_method = "motion-compensated" -> "motion-adaptive"
    [] deint_method = "motion-adaptive" -> "motion-compensated"
    [] OTHER -> "bob"

get_next_deint_method(deint_method) ==
  CASE deint_method = "motion-compensated" -> "motion-adaptive"
    [] OTHER -> "bob"

\* The for (;;) loop of set_best_deint_method.  accepted is the set of methods
\* for which gst_vaapi_filter_set_deinterlacing succeeds.  The loop is followed
\* for at most fuel further iterations; running out is reported as diverged.
RECURSIVE deint_ladder(_, _, _, _)
deint_ladder(deint_method, accepted, tried, fuel) ==
  LET success == deint_method \in accepted
      tried1 == Append(tried, deint_method)
  IN  IF success \/ deint_method = "bob"
        THEN [method |-> deint_method, success |-> success,
              tried |-> tried1, diverged |-> FALSE]
      ELSE IF fuel = 0
        THEN [method |-> deint_method, success |-> FALSE,
              tried |-> tried1, diverged |-> TRUE]
      ELSE deint_ladder(get_next_deint_method(deint_method), accepted,
                        tried1, fuel - 1)

set_best_deint_method(deinterlace_method, accepted) ==
  deint_ladder(deinterlace_method, accepted, <<>>, LadderFuel)

-----------------------------------------------------------------------------
(* Parameter state and dirty-flag engine                                   *)

\* GstVaapiFilterOp: the bit position of each operation's dirty flag
\* (GST_VAAPI_POSTPROCESS_FLAG_x = 1 << GST_VAAPI_FILTER_OP_x); SIZE is the
\* custom bit 20.
FilterOp ==
  [FORMAT |-> 1, CROP |-> 2, DENOISE |-> 3, SHARPEN |-> 4, HUE |-> 5,
   SATURATION |-> 6, BRIGHTNESS |-> 7, CONTRAST |-> 8, DEINTERLACE |-> 9,
   SCALE |-> 10, VIDEO_DIRECTION |-> 11, HDR_TONE_MAP |-> 12, SKINTONE |-> 13,
   SKINTONE_LEVEL |-> 14, SIZE |-> 20]

\* gst_vaapi_filter_get_x_default (filter): the defaults the engine reports
FilterDefault ==
  [DENOISE |-> 0, SHARPEN |-> 0, HUE |-> 0, SATURATION |-> 1, BRIGHTNESS |-> 0,
   CONTRAST |-> 1, SCALE |-> 0, VIDEO_DIRECTION |-> "identity",
   SKINTONE |-> 0, SKINTONE_LEVEL |-> 3]

\* the field of the instance that holds each operation's value
op_value(p, op) ==
  CASE op = "DENOISE" -> p.denoise_level
    [] op = "SHARPEN" -> p.sharpen_level
    [] op = "HUE" -> p.hue
    [] op = "SATURATION" -> p.saturation
    [] op = "BRIGHTNESS" -> p.brightness
    [] op = "CONTRAST" -> p.contrast
    [] op = "SCALE" -> p.scale_method
    [] op = "SKINTONE" -> p.skintone_enhance
    [] op = "SKINTONE_LEVEL" -> p.skintone_value

check_filter_update(p) ==
  /\ p.has_vpp
  /\ \E f \in p.flags :
       /\ FilterOp[f] >= FilterOp["DENOISE"]
       /\ FilterOp[f] <= FilterOp["SKINTONE_LEVEL"]

\* a block that pushes the value and leaves the dirty bit as it is
update_op_keep(r, p, op, rej) ==
  IF ~r.ok \/ op \notin r.flags THEN r
  ELSE IF op \in rej THEN [r EXCEPT !.ok = FALSE]
  ELSE [r EXCEPT !.pushed = @ \cup {<<op, op_value(p, op)>>}]

\* One "if (flags & FLAG_x) { push; if (default == value) clear }" block of
\* update_filter.  r = [ok, flags, pushed]; ok = FALSE once the function has
\* returned FALSE.  rej is the set of operations whose push the engine rejects.
update_op(r, p, op, rej) ==
  IF ~r.ok \/ op \notin r.flags THEN r
  ELSE IF op \in rej THEN [r EXCEPT !.ok = FALSE]
  ELSE [r EXCEPT !.pushed = @ \cup {<<op, op_value(p, op)>>},
                 !.flags = IF FilterDefault[op] = op_value(p, op)
                             THEN @ \ {op} ELSE @]

update_format(r, p, rej) ==
  IF ~r.ok \/ "FORMAT" \notin r.flags THEN r
  ELSE IF "FORMAT" \in rej THEN [r EXCEPT !.ok = FALSE]
  ELSE [r EXCEPT !.pushed = @ \cup {<<"FORMAT", p.format>>}]

\* a block that pushes the explicit direction whatever it is
update_video_direction_explicit(r, p, rej) ==
  IF ~r.ok \/ "VIDEO_DIRECTION" \notin r.flags THEN r
  ELSE [r EXCEPT !.pushed = IF "VIDEO_DIRECTION" \in rej THEN @
                           ELSE @ \cup {<<"VIDEO_DIRECTION", p.video_direction>>},
                !.flags = IF FilterDefault["VIDEO_DIRECTION"] = p.video_direction
                            THEN @ \ {"VIDEO_DIRECTION"} ELSE @]

update_video_direction(r, p, rej) ==
  IF ~r.ok \/ "VIDEO_DIRECTION" \notin r.flags THEN r
  ELSE
    LET method == IF p.video_direction = "auto"
                    THEN p.tag_video_direction ELSE p.video_direction
    IN  [r EXCEPT !.pushed = IF "VIDEO_DIRECTION" \in rej THEN @
                             ELSE @ \cup {<<"VIDEO_DIRECTION", method>>},
                  !.flags = IF FilterDefault["VIDEO_DIRECTION"] = method
                              THEN @ \ {"VIDEO_DIRECTION"} ELSE @]

update_crop(r, p) ==
  IF ~r.ok \/ "CROP" \notin r.flags THEN r
  ELSE IF p.crop_left = 0 /\ p.crop_right = 0 /\ p.crop_top = 0 /\ p.crop_bottom = 0
    THEN [r EXCEPT !.flags = @ \ {"CROP"}]
  ELSE r

\* a block that pushes the level and the deprecated switch alike
update_skintone_both(r, p, rej) ==
  update_op(update_op(r, p, "SKINTONE_LEVEL", rej), p, "SKINTONE", rej)

update_skintone(r, p, rej) ==
  IF ~r.ok THEN r
  ELSE IF "SKINTONE_LEVEL" \in r.flags
    THEN LET r1 == update_op(r, p, "SKINTONE_LEVEL", rej)
         IN  IF r1.ok THEN [r1 EXCEPT !.flags = @ \ {"SKINTONE"}] ELSE r1
  ELSE update_op(r, p, "SKINTONE", rej)

update_filter(p, rej) ==
  LET r0 == [ok |-> TRUE, flags |-> p.flags, pushed |-> {}]
      r1 == update_format(r0, p, rej)
      r2 == update_op(r1, p, "DENOISE", rej)
      r3 == update_op(r2, p, "SHARPEN", rej)
      r4 == update_op(r3, p, "HUE", rej)
      r5 == update_op(r4, p, "SATURATION", rej)
      r6 == update_op(r5, p, "BRIGHTNESS", rej)
      r7 == update_op(r6, p, "CONTRAST", rej)
      r8 == update_op(r7, p, "SCALE", rej)
      r9 == update_video_direction(r8, p, rej)
      r10 == update_crop(r9, p)
  IN  update_skintone(r10, p, rej)

\* check_filter_update && update_filter, then check_filter_update again:
\* the value of filter_updated, the flags left behind and the values the
\* engine took
apply_pending(p, rej) ==
  IF check_filter_update(p)
    THEN LET u == update_filter(p, rej)
             p1 == [p EXCEPT !.flags = u.flags]
         IN  [p |-> p1, filter_updated |-> u.ok /\ check_filter_update(p1),
              attempted |-> TRUE, ok |-> u.ok, pushed |-> u.pushed]
    ELSE [p |-> p, filter_updated |-> FALSE, attempted |-> FALSE, ok |-> TRUE,
          pushed |-> {}]

gst_vaapipostprocess_set_passthrough(p, rej) ==
  LET a == apply_pending(p, rej)
  IN  [a.p EXCEPT !.passthrough = a.p.same_caps /\ ~a.filter_updated]

-----------------------------------------------------------------------------
(* Format descriptors                                                      *)

\* gst_video_info_init
video_info_init ==
  [format |-> "UNKNOWN", width |-> 0, height |-> 0,
   interlace_mode |-> "progressive", fps_n |-> 0, fps_d |-> 1]

\* gst_video_info_from_caps: the fields of the caps the element reads
gst_video_info_from_caps(caps) ==
  [format |-> caps.format, width |-> caps.width, height |-> caps.height,
   interlace_mode |-> caps.interlace_mode, fps_n |-> caps.fps_n,
   fps_d |-> caps.fps_d]

gst_video_info_changed(old_vip, new_vip) ==
  \/ old_vip.format # new_vip.format
  \/ old_vip.width # new_vip.width
  \/ old_vip.height # new_vip.height

video_info_changed(old_vip, new_vip) ==
  \/ gst_video_info_changed(old_vip, new_vip)
  \/ old_vip.interlace_mode # new_vip.interlace_mode

\* [ok, changed, info]: info is the descriptor left in *info
video_info_update(caps, info, parse_ok) ==
  IF ~parse_ok THEN [ok |-> FALSE, changed |-> FALSE, info |-> info]
  ELSE LET vi == gst_video_info_from_caps(caps)
       IN  IF video_info_changed(info, vi)
             THEN [ok |-> TRUE, changed |-> TRUE, info |-> vi]
             ELSE [ok |-> TRUE, changed |-> FALSE, info |-> info]

is_deinterlace_enabled(deinterlace_mode, vip) ==
  CASE deinterlace_mode = "auto" -> vip.interlace_mode # "progressive"
    [] deinterlace_mode = "interlaced" -> TRUE
    [] OTHER -> FALSE

\* gst_util_uint64_scale: floor (val * num / denom), computed without forming
\* the product val * num
gst_util_uint64_scale(val, num, denom) ==
  (val \div denom) * num + ((val % denom) * num) \div denom

field_duration_of(vi, deinterlace) ==
  IF vi.fps_n > 0
    THEN gst_util_uint64_scale(GST_SECOND, vi.fps_d,
                               (1 + (IF deinterlace THEN 1 ELSE 0)) * vi.fps_n)
    ELSE 0

\* [ok, changed, p]
gst_vaapipostprocess_update_sink_caps(p, caps, parse_ok) ==
  LET u == video_info_update(caps, p.sinkpad_info, parse_ok)
  IN  IF ~u.ok THEN [ok |-> FALSE, changed |-> FALSE, p |-> p]
      ELSE
        LET vi == u.info
            deinterlace == is_deinterlace_enabled(p.deinterlace_mode, vi)
        IN  [ok |-> TRUE, changed |-> u.changed,
             p |-> [p EXCEPT !.sinkpad_info = u.info,
                             !.flags = IF deinterlace
                                         THEN @ \cup {"DEINTERLACE"} ELSE @,
                             !.field_duration = field_duration_of(vi, deinterlace),
                             !.get_va_surfaces = caps.va_surface]]

DEFAULT_FORMAT == "ENCODED"

gst_vaapipostprocess_update_src_caps(p, caps, parse_ok) ==
  LET u == video_info_update(caps, p.srcpad_info, parse_ok)
  IN  IF ~u.ok THEN [ok |-> FALSE, changed |-> FALSE, p |-> p]
      ELSE
        LET f1 == IF p.format # p.sinkpad_info.format /\ p.format # DEFAULT_FORMAT
                    THEN {"FORMAT"} ELSE {}
            f2 == IF u.info.width # p.sinkpad_info.width
                     \/ u.info.height # p.sinkpad_info.height
                    THEN {"SIZE"} ELSE {}
        IN  [ok |-> TRUE, changed |-> u.changed,
             p |-> [p EXCEPT !.srcpad_info = u.info,
                             !.flags = @ \cup f1 \cup f2]]

-----------------------------------------------------------------------------
(* Filter Engine binding                                                   *)

\* [ok, p].  display_ok: gst_vaapi_plugin_base_ensure_display succeeds;
\* filter_ok: gst_vaapi_filter_new returns a filter.
gst_vaapipostprocess_ensure_filter(p, display_ok, filter_ok) ==
  IF p.filter THEN [ok |-> TRUE, p |-> p]
  ELSE IF ~display_ok THEN [ok |-> FALSE, p |-> p]
  ELSE [ok |-> filter_ok, p |-> [p EXCEPT !.filter = filter_ok]]

\* o.ops_ok / o.formats_ok: the engine lists its operations / formats
gst_vaapipostprocess_ensure_filter_caps(p, o) ==
  LET e == gst_vaapipostprocess_ensure_filter(p, o.display_ok, o.filter_ok)
  IN  IF ~e.ok THEN e
      ELSE IF ~e.p.filter_ops /\ ~o.ops_ok THEN [ok |-> FALSE, p |-> e.p]
      ELSE
        LET p1 == [e.p EXCEPT !.filter_ops = TRUE]
        IN  IF ~p1.filter_formats /\ ~o.formats_ok THEN [ok |-> FALSE, p |-> p1]
            ELSE [ok |-> TRUE, p |-> [p1 EXCEPT !.filter_formats = TRUE]]

\* a release that lets go of nothing
gst_vaapipostprocess_destroy_filter_keep(p) == p

gst_vaapipostprocess_destroy_filter(p) ==
  [p EXCEPT !.filter_formats = FALSE, !.filter_ops = FALSE, !.filter = FALSE]

\* gst_vaapi_plugin_base_close drops the plugin's pad caps
gst_vaapipostprocess_destroy(p) ==
  LET p1 == [p EXCEPT !.ds = ds_reset(@)]
  IN  [gst_vaapipostprocess_destroy_filter(p1) EXCEPT !.base_hdr = FALSE]

gst_vaapipostprocess_create(p, o) ==
  IF ~o.open_ok \/ ~o.display_ok THEN [ok |-> FALSE, p |-> p]
  ELSE
    LET p1 == [p EXCEPT !.use_vpp = FALSE]
        e == gst_vaapipostprocess_ensure_filter(p1, o.display_ok, o.filter_ok)
    IN  [ok |-> TRUE, p |-> [e.p EXCEPT !.has_vpp = e.ok]]

gst_vaapipostprocess_start(p, o) ==
  LET p1 == [p EXCEPT !.ds = ds_reset(@)]
  IN  IF ~o.open_ok THEN [ok |-> FALSE, p |-> p1]
      ELSE [ok |-> TRUE,
            p |-> gst_vaapipostprocess_ensure_filter(p1, o.display_ok, o.filter_ok).p]

gst_vaapipostprocess_stop(p) ==
  [p EXCEPT !.ds = ds_reset(@),
            !.base_hdr = FALSE,
            !.field_duration = GST_CLOCK_TIME_NONE,
            !.sinkpad_info = video_info_init,
            !.srcpad_info = video_info_init]

-----------------------------------------------------------------------------
(* Negotiation                                                             *)

\* a check that takes every pixel format for a native one
is_native_video_format_all(format) == TRUE

native_formats == {"NV12", "YV12", "I420"}

is_native_video_format(format) == format \in native_formats

should_hdr_tone_map(p, caps_hdr) ==
  CASE p.hdr_tone_map = "auto" -> caps_hdr
    [] p.hdr_tone_map = "disabled" -> FALSE
    [] OTHER -> FALSE

\* o.hdr_ok: gst_vaapi_filter_set_hdr_tone_map succeeds; o.hdr_meta_ok:
\* gst_vaapi_filter_set_hdr_tone_map_meta succeeds
configure_hdr_tone_map(p, caps_hdr, o) ==
  LET enable == should_hdr_tone_map(p, caps_hdr)
  IN  IF ~o.hdr_ok THEN [ok |-> FALSE, p |-> [p EXCEPT !.flags = @ \ {"HDR_TONE_MAP"}]]
      ELSE IF enable
        THEN IF ~o.hdr_meta_ok
               THEN [ok |-> FALSE, p |-> [p EXCEPT !.flags = @ \ {"HDR_TONE_MAP"}]]
               ELSE [ok |-> TRUE, p |-> [p EXCEPT !.flags = @ \cup {"HDR_TONE_MAP"}]]
      ELSE [ok |-> TRUE, p |-> [p EXCEPT !.flags = @ \ {"HDR_TONE_MAP"}]]

\* What the rebuild step of set_caps did to the binding: whether a change of
\* the descriptors was seen, what the element held when the step began, what
\* gst_vaapipostprocess_create was handed (d), and whether create made a new
\* filter (c).
rebuild_report(p, changed, d, c) ==
  [changed |-> changed,
   had_filter |-> p.filter,
   had_history |-> p.ds # ds_reset(p.ds),
   released |-> changed /\ ~d.filter /\ ~d.filter_ops /\ ~d.filter_formats
                  /\ d.ds = ds_reset(d.ds),
   created |-> changed /\ c.ok /\ c.p.filter /\ ~d.filter]

\* set_caps left before the rebuild step
no_rebuild ==
  [changed |-> FALSE, had_filter |-> FALSE, had_history |-> FALSE,
   released |-> FALSE, created |-> FALSE]

\* The part of set_caps after both descriptors were updated.
\* [ret, p, passthrough_set, sink_ok, rebuild]
set_caps_rebuild(p, caps, out_caps, changed, src_caps_changed, o) ==
  LET d == gst_vaapipostprocess_destroy(p)
      c == gst_vaapipostprocess_create(d, o)
      rb == rebuild_report(p, changed, d, c)
      fail(q) == [ret |-> FALSE, p |-> q, passthrough_set |-> FALSE,
                  sink_ok |-> TRUE, rebuild |-> rb]
      p1 == IF changed THEN [c.p EXCEPT !.base_hdr = caps.hdr] ELSE p
  IN  IF changed /\ ~c.ok THEN fail(c.p)
      ELSE IF changed /\ ~o.base_set_caps_ok THEN fail(c.p)
      ELSE IF p1.has_vpp /\ ~o.colorimetry_ok THEN fail(p1)
      ELSE
        LET p2 == IF p1.has_vpp THEN configure_hdr_tone_map(p1, p1.base_hdr, o).p
                  ELSE p1
        IN  IF ~o.pool_ok THEN fail(p2)
            ELSE
              LET p3 == [p2 EXCEPT !.same_caps = (caps = out_caps)]
              IN  IF ~src_caps_changed
                    THEN [ret |-> TRUE,
                          p |-> gst_vaapipostprocess_set_passthrough(p3, o.rej),
                          passthrough_set |-> TRUE, sink_ok |-> TRUE,
                          rebuild |-> rb]
                    ELSE [ret |-> TRUE, p |-> p3, passthrough_set |-> FALSE,
                          sink_ok |-> TRUE, rebuild |-> rb]

gst_vaapipostprocess_set_caps(p, caps, out_caps, o) ==
  LET fail(q) == [ret |-> FALSE, p |-> q, passthrough_set |-> FALSE,
                  sink_ok |-> TRUE, rebuild |-> no_rebuild]
      s == gst_vaapipostprocess_update_sink_caps(p, caps, o.parse_sink_ok)
  IN  IF ~s.ok THEN [fail(p) EXCEPT !.sink_ok = FALSE]
      ELSE IF deint_method_is_advanced(s.p.deinterlace_method)
              /\ ~is_native_video_format(caps.format)
        THEN fail(s.p)
      ELSE
        LET r == gst_vaapipostprocess_update_src_caps(s.p, out_caps, o.parse_src_ok)
        IN  IF ~r.ok THEN fail(s.p)
            ELSE set_caps_rebuild(r.p, caps, out_caps, s.changed \/ r.changed,
                                  r.changed, o)

\* a NULL GstCaps pointer
NoCaps ==
  [format |-> "NULL", width |-> 0, height |-> 0, interlace_mode |-> "progressive",
   fps_n |-> 0, fps_d |-> 1, va_surface |-> FALSE, hdr |-> FALSE]

\* direction = "src": nothing but gst_caps_fixate.  direction = "sink":
\* outcaps is what gst_vaapipostprocess_fixate_srccaps returns (NoCaps or caps).
\* [p, outcaps, passthrough_set, attempted, apply_ok, pushed]
gst_vaapipostprocess_fixate_caps(p, direction, caps, outcaps, o) ==
  IF direction = "src"
    THEN [p |-> p, outcaps |-> outcaps, passthrough_set |-> FALSE,
          attempted |-> FALSE, apply_ok |-> TRUE, pushed |-> {}]
  ELSE
    LET e == gst_vaapipostprocess_ensure_filter_caps(p, o)
        p1 == [e.p EXCEPT !.has_vpp = e.ok]
        a == apply_pending(p1, o.rej)
    IN  IF outcaps = NoCaps
          THEN [p |-> a.p, outcaps |-> outcaps, passthrough_set |-> FALSE,
                attempted |-> a.attempted, apply_ok |-> a.ok,
                pushed |-> a.pushed]
          ELSE [p |-> [a.p EXCEPT !.passthrough = (caps = outcaps) /\ ~a.filter_updated],
                outcaps |-> outcaps, passthrough_set |-> TRUE,
                attempted |-> a.attempted, apply_ok |-> a.ok,
                pushed |-> a.pushed]

-----------------------------------------------------------------------------
(* Frame pipeline                                                          *)
(*                                                                         *)
(* A buffer is [pts, duration, tff, interlaced, discont, valid]; valid =  *)
(* it carries a GstVaapiVideoMeta.  An output frame is a record            *)
(* [pts, duration, discont, structure].      The outcome record o of one   *)
(* call names, per path, the first step of that path that fails:           *)
(*   o.io the plugin-base step of transform that fails (input, vabuf,      *)
(*   syscopy), o.vpp in VppPoints, o.push the return of the first push,    *)
(*   o.basic in BasicPoints, o.bpush the flow return of the basic path's   *)
(*   push, o.accepted the methods gst_vaapi_filter_set_deinterlacing takes.*)

VppPoints ==
  {"none", "buffer1", "meta1", "proxy1", "refs1", "none1", "process1", "copy1",
   "meta2", "proxy2", "deint2", "refs2", "none2", "process2"}

BasicPoints == {"none", "buffer", "copy"}

new_frame(buf) ==
  [pts |-> GST_CLOCK_TIME_NONE, duration |-> GST_CLOCK_TIME_NONE,
   discont |-> FALSE, structure |-> "frame"]

\* bclass->copy_metadata is GstBaseTransform's default: gst_buffer_copy_into
\* (outbuf, inbuf, GST_BUFFER_COPY_FLAGS | GST_BUFFER_COPY_TIMESTAMPS, 0, -1)
copy_metadata(outbuf, inbuf) ==
  [outbuf EXCEPT !.pts = inbuf.pts, !.duration = inbuf.duration,
                 !.discont = inbuf.discont]

\* gst_buffer_copy_into (outbuf, inbuf, flags | GST_BUFFER_COPY_FLAGS, 0, -1)
\* followed by copy_metadata; the surface proxy is shared with the input
append_output_buffer_metadata(outbuf, inbuf, copy_timestamps) ==
  LET b1 == [outbuf EXCEPT !.discont = inbuf.discont]
      b2 == IF copy_timestamps
              THEN [b1 EXCEPT !.pts = inbuf.pts, !.duration = inbuf.duration]
              ELSE b1
  IN  copy_metadata(b2, inbuf)

\* reset tells whether the call went through ds_reset at line 902, recorded
\* whether it went through ds_add_buffer at line 1052.
\* What a path reports: ret its flow return ("CONTINUE" while the function
\* has not returned), p the instance afterwards, frames the buffers handed
\* downstream (pushed with GST_FLOW_OK, or left in outbuf on GST_FLOW_OK),
\* nprocess the gst_vaapi_filter_process calls made, refs the surfaces given
\* to gst_vaapi_filter_set_deinterlacing_references, c the locals of the call,
\* label the error label the function left through ("" where the model does
\* not tell the labels apart).
path_result(ret, p, c, frames, nprocess, refs) ==
  [ret |-> ret, p |-> p, c |-> c, frames |-> frames, nprocess |-> nprocess,
   gathered |-> FALSE, refs |-> refs, label |-> "", reset |-> FALSE,
   recorded |-> FALSE, applied |-> ""]

\* the same after ds_set_surfaces has run for the frame
path_result_refs(ret, p, c, frames, nprocess, refs) ==
  [ret |-> ret, p |-> p, c |-> c, frames |-> frames, nprocess |-> nprocess,
   gathered |-> c.deint /\ c.deint_refs, refs |-> refs, label |-> "",
   reset |-> FALSE, recorded |-> FALSE, applied |-> ""]

no_locals ==
  [deint |-> FALSE, deint_changed |-> FALSE, deint_method |-> "none",
   deint_refs |-> FALSE]

first_field_structure(c, buf) ==
  IF c.deint THEN (IF buf.tff THEN "top" ELSE "bottom") ELSE "frame"

second_field_structure(c, buf) ==
  IF c.deint THEN (IF buf.tff THEN "bottom" ELSE "top") ELSE "frame"

\* lines 979-985: the first field's buffer
first_field_buffer(p, buf, c) ==
  [copy_metadata(new_frame(buf), buf) EXCEPT
     !.pts = buf.pts, !.duration = p.field_duration,
     !.discont = buf.discont \/ @,
     !.structure = first_field_structure(c, buf)]

\* lines 972-992: process, stamp and push the first field
process_vpp_first_field_emit(p, buf, o, c, refs) ==
  IF o.vpp = "process1"
    THEN [path_result_refs("ERROR", p, c, <<>>, 1, refs)
            EXCEPT !.label = "error_process_vpp"]
  ELSE IF o.vpp = "copy1" THEN path_result_refs("ERROR", p, c, <<>>, 1, refs)
  ELSE IF o.push # "OK"
    THEN [path_result_refs(o.push, p, c, <<>>, 1, refs)
            EXCEPT !.label = "error_push_buffer"]
  ELSE path_result_refs("CONTINUE", p, c, <<first_field_buffer(p, buf, c)>>, 1, refs)

\* lines 944-970: configure the engine for the first field
process_vpp_first_field_setup(p, buf, o, c) ==
  IF c.deint /\ c.deint_refs
    THEN IF o.vpp = "refs1"
           THEN [path_result_refs("NOT_SUPPORTED",
                                  [p EXCEPT !.ds = ds_set_surfaces(@)], c, <<>>,
                                  0, ds_surfaces(p.ds))
                   EXCEPT !.label = "error_op_deinterlace"]
           ELSE process_vpp_first_field_emit(
                  [p EXCEPT !.ds = ds_set_surfaces(@)], buf, o, c,
                  ds_surfaces(p.ds))
  ELSE IF ~c.deint /\ c.deint_changed /\ o.vpp = "none1"
    THEN [path_result("NOT_SUPPORTED", p, c, <<>>, 0, <<>>)
            EXCEPT !.label = "error_op_deinterlace"]
  ELSE process_vpp_first_field_emit(p, buf, o, c, <<>>)

\* a first field that uses the method the ladder settled on for this frame
\* and leaves the configured method as it was
process_vpp_first_field_keep_method(p, buf, o, c, lad) ==
  IF o.vpp \in {"buffer1", "meta1", "proxy1"}
    THEN [path_result("ERROR", p, c, <<>>, 0, <<>>)
            EXCEPT !.label = IF o.vpp = "buffer1" THEN "error_create_buffer"
                             ELSE IF o.vpp = "meta1" THEN "error_create_meta"
                             ELSE "error_create_proxy"]
  ELSE IF c.deint /\ ~lad.success
    THEN [path_result("NOT_SUPPORTED", p, c, <<>>, 0, <<>>)
            EXCEPT !.label = "error_op_deinterlace"]
  ELSE IF c.deint
    THEN [process_vpp_first_field_setup(
            p, buf, o,
            [c EXCEPT !.deint_method = lad.method,
                      !.deint_refs = deint_method_is_advanced(lad.method)])
            EXCEPT !.applied = lad.method]
  ELSE process_vpp_first_field_setup(p, buf, o, c)

\* lines 924-993: the first field.  c holds deint and deint_changed; lad is
\* what set_best_deint_method gives for this frame.
process_vpp_first_field(p, buf, o, c, lad) ==
  IF o.vpp \in {"buffer1", "meta1", "proxy1"}
    THEN [path_result("ERROR", p, c, <<>>, 0, <<>>)
            EXCEPT !.label = CASE o.vpp = "buffer1" -> "error_create_buffer"
                               [] o.vpp = "meta1" -> "error_create_meta"
                               [] OTHER -> "error_create_proxy"]
  ELSE IF c.deint /\ ~lad.success
    THEN [path_result("NOT_SUPPORTED", p, c, <<>>, 0, <<>>)
            EXCEPT !.label = "error_op_deinterlace"]
  ELSE IF c.deint
    THEN [process_vpp_first_field_setup(
            [p EXCEPT !.deinterlace_method = lad.method], buf, o,
            [c EXCEPT !.deint_method = lad.method,
                      !.deint_refs = deint_method_is_advanced(lad.method)])
            EXCEPT !.applied = lad.method]
  ELSE process_vpp_first_field_setup(
         p, buf, o,
         [c EXCEPT !.deint_method = IF c.deint_changed THEN "none" ELSE @])

\* lines 1035-1046: the second field's buffer
second_field_buffer(p, buf, c) ==
  [copy_metadata(
     IF "DEINTERLACE" \notin p.flags
       THEN [new_frame(buf) EXCEPT !.pts = buf.pts, !.duration = buf.duration]
       ELSE [new_frame(buf) EXCEPT !.pts = buf.pts + p.field_duration,
                                   !.duration = p.field_duration],
     buf)
   EXCEPT !.structure = second_field_structure(c, buf)]

\* lines 996-1054: the second field, written into outbuf
process_vpp_second_field(s, buf, o) ==
  IF s.ret # "CONTINUE" THEN s
  ELSE IF o.vpp \in {"meta2", "proxy2"}
    THEN [s EXCEPT !.ret = "ERROR",
                   !.label = IF o.vpp = "meta2" THEN "error_create_meta"
                             ELSE "error_create_proxy"]
  ELSE IF s.c.deint /\ o.vpp = "deint2"
    THEN [s EXCEPT !.ret = "NOT_SUPPORTED", !.label = "error_op_deinterlace"]
  ELSE IF s.c.deint /\ s.c.deint_refs /\ o.vpp = "refs2"
    THEN [s EXCEPT !.ret = "NOT_SUPPORTED", !.label = "error_op_deinterlace"]
  ELSE IF ~s.c.deint /\ s.c.deint_changed /\ o.vpp = "none2"
    THEN [s EXCEPT !.ret = "NOT_SUPPORTED", !.label = "error_op_deinterlace"]
  ELSE IF o.vpp = "process2"
    THEN [s EXCEPT !.ret = "ERROR", !.nprocess = @ + 1,
                   !.label = "error_process_vpp"]
  ELSE [s EXCEPT !.ret = "OK",
                 !.frames = Append(@, second_field_buffer(s.p, buf, s.c)),
                 !.nprocess = @ + 1,
                 !.recorded = s.c.deint /\ s.c.deint_refs,
                 !.p = [@ EXCEPT !.use_vpp = TRUE,
                                 !.ds = IF s.c.deint /\ s.c.deint_refs
                                          THEN ds_add_buffer(@, [present |-> TRUE,
                                                                tff |-> buf.tff,
                                                                discont |-> buf.discont,
                                                                pts |-> buf.pts])
                                          ELSE @]]

\* lines 894-919: the locals deint, deint_changed, deint_method, deint_refs
process_vpp_locals(p, deint) ==
  [deint |-> deint, deint_changed |-> deint # p.ds.deint,
   deint_method |-> p.deinterlace_method,
   deint_refs |-> deint_method_is_advanced(p.deinterlace_method)]

\* line 901: the condition under which the references are dropped
process_vpp_resets(p, buf, c) ==
  c.deint_changed \/ (p.ds.num_surfaces > 0 /\ buf.tff # p.ds.tff)

\* lines 899-919: drop references if deinterlacing conditions changed
process_vpp_enter(p, buf, c) ==
  [p EXCEPT !.ds = [(IF process_vpp_resets(p, buf, c)
                       THEN ds_reset(p.ds) ELSE p.ds)
                    EXCEPT !.deint = c.deint, !.tff = buf.tff]]

process_vpp_fields(p, buf, o, c) ==
  process_vpp_second_field(
    IF "DEINTERLACE" \in p.flags
      THEN process_vpp_first_field(p, buf, o, c,
             set_best_deint_method(p.deinterlace_method, o.accepted))
      ELSE path_result("CONTINUE", p, c, <<>>, 0, <<>>),
    buf, o)

process_vpp_run(p, buf, o, c) ==
  [process_vpp_fields(process_vpp_enter(p, buf, c), buf, o, c)
     EXCEPT !.reset = process_vpp_resets(p, buf, c)]

gst_vaapipostprocess_process_vpp(p, buf, o) ==
  IF ~buf.valid THEN path_result("ERROR", p, no_locals, <<>>, 0, <<>>)
  ELSE process_vpp_run(p, buf, o,
         process_vpp_locals(p,
           should_deinterlace_buffer(p.flags, p.deinterlace_mode,
                                     p.sinkpad_info.interlace_mode,
                                     buf.interlaced)))

\* lines 1129-1166: the two buffers of the basic path
process_buffers(p, buf, c) ==
  <<[append_output_buffer_metadata(new_frame(buf), buf, FALSE) EXCEPT
       !.structure = first_field_structure(c, buf),
       !.pts = buf.pts, !.duration = p.field_duration],
    [append_output_buffer_metadata(new_frame(buf), buf, FALSE) EXCEPT
       !.structure = second_field_structure(c, buf),
       !.pts = buf.pts + p.field_duration, !.duration = p.field_duration]>>

\* lines 1106-1191: the basic path only tags the picture structure
gst_vaapipostprocess_process(p, buf, o) ==
  IF ~buf.valid THEN path_result("ERROR", p, no_locals, <<>>, 0, <<>>)
  ELSE IF o.basic = "buffer"
    THEN [path_result("EOS", p, no_locals, <<>>, 0, <<>>)
            EXCEPT !.label = "error_create_buffer"]
  ELSE IF o.basic = "copy" THEN path_result("ERROR", p, no_locals, <<>>, 0, <<>>)
  ELSE IF o.bpush # "OK"
    THEN [path_result(o.bpush, p, no_locals, <<>>, 0, <<>>)
            EXCEPT !.label = "error_push_buffer"]
  ELSE path_result("OK", p, no_locals,
         process_buffers(p, buf,
           [no_locals EXCEPT !.deint =
              should_deinterlace_buffer(p.flags, p.deinterlace_mode,
                                        p.sinkpad_info.interlace_mode,
                                        buf.interlaced)]),
         0, <<>>)

\* a passthrough that does not look for the buffer's surface
gst_vaapipostprocess_passthrough_unchecked(p, buf) ==
  path_result("OK", p, no_locals,
    <<[append_output_buffer_metadata(new_frame(buf), buf, TRUE)
         EXCEPT !.structure = "unchanged"]>>,
    0, <<>>)

gst_vaapipostprocess_passthrough(p, buf) ==
  IF ~buf.valid THEN path_result("ERROR", p, no_locals, <<>>, 0, <<>>)
  ELSE path_result("OK", p, no_locals,
         <<[append_output_buffer_metadata(new_frame(buf), buf, TRUE)
              EXCEPT !.structure = "unchanged"]>>,
         0, <<>>)

\* what transform reports: the paths run, in order, and what they did together
transform_result(paths, r) ==
  [ret |-> r.ret, p |-> r.p, frames |-> r.frames, nprocess |-> r.nprocess,
   gathered |-> r.gathered, refs |-> r.refs, reset |-> r.reset,
   recorded |-> r.recorded, applied |-> r.applied, paths |-> paths,
   labels |-> [i \in 1..Len(paths) |-> r.label],
   rets |-> [i \in 1..Len(paths) |-> r.ret]]

transform_join(t, path, r) ==
  [ret |-> r.ret, p |-> r.p, frames |-> t.frames \o r.frames,
   nprocess |-> t.nprocess + r.nprocess, gathered |-> t.gathered,
   refs |-> t.refs, reset |-> t.reset, recorded |-> t.recorded,
   applied |-> t.applied,
   paths |-> Append(t.paths, path),
   labels |-> Append(t.labels, r.label), rets |-> Append(t.rets, r.ret)]

\* lines 1559-1567
transform_vpp(p, buf, o) ==
  IF p.flags # {} /\ p.has_vpp
    THEN transform_result(<<"vpp">>, gst_vaapipostprocess_process_vpp(p, buf, o))
    ELSE transform_result(<<>>,
           path_result("NOT_SUPPORTED", p, no_locals, <<>>, 0, <<>>))

\* lines 1569-1574
transform_basic(t, buf, o) ==
  IF t.p.flags # {} /\ t.ret = "NOT_SUPPORTED" /\ "DEINTERLACE" \in t.p.flags
    THEN transform_join(t, "basic", gst_vaapipostprocess_process(t.p, buf, o))
    ELSE t

\* lines 1577-1578
transform_passthrough(t, buf) ==
  IF t.ret = "NOT_SUPPORTED"
    THEN transform_join(t, "passthrough",
                        gst_vaapipostprocess_passthrough(t.p, buf))
    ELSE t

\* lines 1580-1591: the buffer left in outbuf reaches downstream only on
\* GST_FLOW_OK and, when frames are copied out, only if that copy works
transform_done(t, o) ==
  IF o.io = "syscopy"
    THEN [t EXCEPT !.ret = "ERROR",
                   !.frames = IF t.ret = "OK"
                                THEN SubSeq(@, 1, Len(@) - 1) ELSE @]
    ELSE t

\* [ret, p, frames, nprocess, gathered, refs, paths, labels, rets]; rets[i]
\* is what paths[i] returned and labels[i] the error label it left through
gst_vaapipostprocess_transform(p, buf, o) ==
  IF o.io \in {"input", "vabuf"}
    THEN transform_result(<<>>,
           path_result("ERROR", p, no_locals, <<>>, 0, <<>>))
    ELSE transform_done(
           transform_passthrough(
             transform_basic(transform_vpp(p, buf, o), buf, o), buf), o)

-----------------------------------------------------------------------------
(* Cropping                                                                *)
(*                                                                         *)
(* The fields of a GstVaapiRectangle are guint32 and the crop properties   *)
(* are guint.  A 32-bit unsigned value is kept as its two 16-bit halves,   *)
(* [hi, lo], so that a difference that wraps around is the value the       *)
(* program computes.                                                       *)

\* the 32 bits of the C int v (two's complement) read as unsigned
guint(v) ==
  IF v >= 0 THEN [hi |-> v \div 65536, lo |-> v % 65536]
  ELSE LET w == (v + 2147483647) + 1
       IN  [hi |-> 32768 + w \div 65536, lo |-> w % 65536]

\* a + b and a - b in 32-bit unsigned arithmetic
guint_add(a, b) ==
  LET lo == a.lo + b.lo
  IN  [hi |-> (a.hi + b.hi + lo \div 65536) % 65536, lo |-> lo % 65536]

guint_sub(a, b) ==
  LET borrow == IF a.lo < b.lo THEN 1 ELSE 0
  IN  [hi |-> (a.hi - b.hi - borrow + 65536) % 65536,
       lo |-> (a.lo - b.lo + 65536) % 65536]

\* gst_query_find_allocation_meta for the two APIs of the downstream query
gst_vaapipostprocess_decide_allocation(p, crop_meta_api, video_meta_api) ==
  [p EXCEPT !.forward_crop = crop_meta_api /\ video_meta_api]

use_vpp_crop(p) == ~(p.forward_crop /\ "CROP" \notin p.flags)

\* lines 874-892: the rectangle given to
\* gst_vaapi_filter_set_cropping_rectangle.  buf.crop_meta is the
\* GstVideoCropMeta of the input ([present, x, y]), buf.render_rect what
\* gst_vaapi_video_meta_get_render_rect gives.
process_vpp_crop_rect(p, buf) ==
  IF use_vpp_crop(p)
    THEN
      LET x == guint(p.crop_left)
          y == guint(p.crop_top)
      IN  [x |-> IF buf.crop_meta.present
                   THEN guint_add(x, guint(buf.crop_meta.x)) ELSE x,
           y |-> IF buf.crop_meta.present
                   THEN guint_add(y, guint(buf.crop_meta.y)) ELSE y,
           width |-> guint_sub(guint(p.sinkpad_info.width),
                               guint_add(guint(p.crop_left), guint(p.crop_right))),
           height |-> guint_sub(guint(p.sinkpad_info.height),
                                guint_add(guint(p.crop_top), guint(p.crop_bottom)))]
    ELSE [x |-> guint(buf.render_rect.x), y |-> guint(buf.render_rect.y),
          width |-> guint(buf.render_rect.width),
          height |-> guint(buf.render_rect.height)]

\* G_PRIMITIVE_SWAP (guint, crop->width, crop->height)
swap_crop_size(crop) == [crop EXCEPT !.width = crop.height, !.height = crop.width]

\* a rotation whose left turn leaves width and height where they were
rotate_crop_meta_keep_size(p, direction, vmeta, crop) ==
  IF ~p.has_vpp \/ ~vmeta.present THEN crop
  ELSE CASE direction = "90r" ->
              swap_crop_size([crop EXCEPT
                !.x = guint_sub(guint_sub(guint(vmeta.height), crop.height), crop.y),
                !.y = crop.x])
         [] direction = "90l" ->
              [crop EXCEPT
                !.x = crop.y,
                !.y = guint_sub(guint_sub(guint(vmeta.width), crop.width), crop.x)]
         [] OTHER -> crop

\* lines 797-847.  direction is gst_vaapi_filter_get_video_direction of the
\* filter, vmeta the GstVideoMeta of the input ([present, width, height]),
\* crop the GstVideoCropMeta of the output, whose fields are guint; the
\* result is what *crop holds afterwards.
rotate_crop_meta(p, direction, vmeta, crop) ==
  IF ~p.has_vpp \/ ~vmeta.present THEN crop
  ELSE
    LET flip_x == guint_sub(guint_sub(guint(vmeta.width), crop.width), crop.x)
        flip_y == guint_sub(guint_sub(guint(vmeta.height), crop.height), crop.y)
    IN  CASE direction = "horiz" -> [crop EXCEPT !.x = flip_x]
          [] direction = "vert" -> [crop EXCEPT !.y = flip_y]
          [] direction = "90r" ->
               swap_crop_size([crop EXCEPT !.x = flip_y, !.y = crop.x])
          [] direction = "180" -> [crop EXCEPT !.x = flip_x, !.y = flip_y]
          [] direction = "90l" ->
               swap_crop_size([crop EXCEPT !.x = crop.y, !.y = flip_x])
          [] direction = "ur-ll" ->
               swap_crop_size([crop EXCEPT !.x = flip_y, !.y = flip_x])
          [] direction = "ul-lr" ->
               swap_crop_size([crop EXCEPT !.x = crop.y, !.y = crop.x])
          [] OTHER -> crop

-----------------------------------------------------------------------------
(* Properties                                                              *)

\* the block of gst_vaapipostprocess_set_property for one property: the
\* field it stores and the dirty bit it sets
gst_vaapipostprocess_set_property(p, prop, value) ==
  CASE prop = "deinterlace-mode" -> [p EXCEPT !.deinterlace_mode = value]
    [] prop = "deinterlace-method" -> [p EXCEPT !.deinterlace_method = value]
    [] prop = "format" -> [p EXCEPT !.format = value]
    [] prop = "hdr-tone-map" -> [p EXCEPT !.hdr_tone_map = value]
    [] prop = "denoise" ->
         [p EXCEPT !.denoise_level = value, !.flags = @ \cup {"DENOISE"}]
    [] prop = "sharpen" ->
         [p EXCEPT !.sharpen_level = value, !.flags = @ \cup {"SHARPEN"}]
    [] prop = "hue" -> [p EXCEPT !.hue = value, !.flags = @ \cup {"HUE"}]
    [] prop = "saturation" ->
         [p EXCEPT !.saturation = value, !.flags = @ \cup {"SATURATION"}]
    [] prop = "brightness" ->
         [p EXCEPT !.brightness = value, !.flags = @ \cup {"BRIGHTNESS"}]
    [] prop = "contrast" ->
         [p EXCEPT !.contrast = value, !.flags = @ \cup {"CONTRAST"}]
    [] prop = "scale-method" ->
         [p EXCEPT !.scale_method = value, !.flags = @ \cup {"SCALE"}]
    [] prop = "video-direction" ->
         [p EXCEPT !.video_direction = value,
                   !.flags = @ \cup {"VIDEO_DIRECTION"}]
    [] prop = "skin-tone-enhancement" ->
         [p EXCEPT !.skintone_enhance = value, !.flags = @ \cup {"SKINTONE"}]
    [] prop = "skin-tone-enhancement-level" ->
         [p EXCEPT !.skintone_value = value,
                   !.flags = @ \cup {"SKINTONE_LEVEL"}]
    [] prop = "crop-left" ->
         [p EXCEPT !.crop_left = value, !.flags = @ \cup {"CROP"}]
    [] prop = "crop-right" ->
         [p EXCEPT !.crop_right = value, !.flags = @ \cup {"CROP"}]
    [] prop = "crop-top" ->
         [p EXCEPT !.crop_top = value, !.flags = @ \cup {"CROP"}]
    [] prop = "crop-bottom" ->
         [p EXCEPT !.crop_bottom = value, !.flags = @ \cup {"CROP"}]

-----------------------------------------------------------------------------
(* Events                                                                  *)

\* a GST_EVENT_TAG reaching the sink pad; orientation is the string of the
\* image-orientation tag, "" when the tag list has none
gst_vaapipostprocess_sink_event(p, orientation) ==
  LET direction ==
        CASE orientation = "rotate-0" -> "identity"
          [] orientation = "rotate-90" -> "90r"
          [] orientation = "rotate-180" -> "180"
          [] orientation = "rotate-270" -> "90l"
          [] orientation = "flip-rotate-0" -> "horiz"
          [] orientation = "flip-rotate-90" -> "ul-lr"
          [] orientation = "flip-rotate-180" -> "vert"
          [] orientation = "flip-rotate-270" -> "ur-ll"
          [] OTHER -> "unrecognized"
  IN  IF orientation = "" \/ direction = "unrecognized" THEN p
      ELSE [p EXCEPT !.tag_video_direction = direction,
                     !.flags = @ \cup {"VIDEO_DIRECTION"}]

\* A pointer coordinate of a navigation event is a gdouble; it is kept as the
\* exact value v * num / den + off, with num a guint (what the C expression
\* "gint - guint" gives before it is converted to gdouble) and v, den, off
\* integers.  coordinate(v) is the plain value v.
coordinate(v) == [v |-> v, num |-> guint(1), den |-> 1, off |-> 0]

\* lines 1865-1892: *w_factor and *h_factor as fractions
get_scale_factor(p, direction) ==
  LET turned == direction \in {"90r", "90l", "ur-ll", "ul-lr"}
  IN  [w_num |-> guint_sub(guint(p.sinkpad_info.width),
                           guint_add(guint(p.crop_left), guint(p.crop_right))),
       w_den |-> IF turned THEN p.srcpad_info.height ELSE p.srcpad_info.width,
       h_num |-> guint_sub(guint(p.sinkpad_info.height),
                           guint_add(guint(p.crop_top), guint(p.crop_bottom))),
       h_den |-> IF turned THEN p.srcpad_info.width ELSE p.srcpad_info.height]

\* lines 1894-1974: the pointer coordinates of the navigation event that is
\* handed to the parent class.  direction is
\* gst_vaapi_filter_get_video_direction of the filter; ev.has_pointer tells
\* whether the structure holds pointer_x and pointer_y.
gst_vaapipostprocess_src_event(p, direction, ev) ==
  IF ~(p.has_vpp /\ ev.has_pointer)
    THEN [x |-> coordinate(ev.x), y |-> coordinate(ev.y)]
  ELSE
    LET w == p.srcpad_info.width
        h == p.srcpad_info.height
        new == CASE direction = "90r" -> <<ev.y, w - 1 - ev.x>>
                 [] direction = "90l" -> <<h - 1 - ev.y, ev.x>>
                 [] direction = "ur-ll" -> <<h - 1 - ev.y, w - 1 - ev.x>>
                 [] direction = "ul-lr" -> <<ev.y, ev.x>>
                 [] direction = "180" -> <<w - 1 - ev.x, h - 1 - ev.y>>
                 [] direction = "horiz" -> <<w - 1 - ev.x, ev.y>>
                 [] direction = "vert" -> <<ev.x, h - 1 - ev.y>>
                 [] OTHER -> <<ev.x, ev.y>>
        f == get_scale_factor(p, direction)
    IN  [x |-> [v |-> new[1], num |-> f.w_num, den |-> f.w_den,
                off |-> p.crop_left],
         y |-> [v |-> new[2], num |-> f.h_num, den |-> f.h_den,
                off |-> p.crop_top]]

-----------------------------------------------------------------------------
(* The instance after gst_vaapipostprocess_init                            *)

gst_vaapipostprocess_init ==
  [flags |-> {},
   format |-> DEFAULT_FORMAT,
   hdr_tone_map |-> "auto",
   deinterlace_mode |-> "auto",
   deinterlace_method |-> "bob",
   field_duration |-> GST_CLOCK_TIME_NONE,
   get_va_surfaces |-> TRUE,
   forward_crop |-> FALSE,
   video_direction |-> "identity",
   tag_video_direction |-> "auto",
   denoise_level |-> 0, sharpen_level |-> 0,
   hue |-> 0, saturation |-> 1, brightness |-> 0, contrast |-> 1,
   scale_method |-> 0,
   skintone_enhance |-> 0, skintone_value |-> 3,
   crop_left |-> 0, crop_right |-> 0, crop_top |-> 0, crop_bottom |-> 0,
   sinkpad_info |-> video_info_init,
   srcpad_info |-> video_info_init,
   ds |-> ds_init,
   filter |-> FALSE, filter_ops |-> FALSE, filter_formats |-> FALSE,
   has_vpp |-> FALSE, use_vpp |-> FALSE, same_caps |-> FALSE,
   base_hdr |-> FALSE,
   \* GstBaseTransform: passthrough mode, negotiated caps, started
   passthrough |-> FALSE, negotiated |-> FALSE, running |-> FALSE]

idle == [op |-> "init"]

-----------------------------------------------------------------------------
(* Inputs of the frame pipeline specification                              *)

\* sink caps offered upstream: one size and rate, the interlace modes that
\* make the per-frame decision differ
FrameCaps ==
  {[format |-> "NV12", width |-> 640, height |-> 480, interlace_mode |-> im,
    fps_n |-> 25, fps_d |-> 1, va_surface |-> TRUE, hdr |-> FALSE] :
     im \in {"progressive", "mixed"}}

FrameMethods == {"bob", "motion-adaptive"}

PushReturns == {"OK", "ERROR", "NOT_SUPPORTED"}

\* at most one failing step on the hardware path and one on the basic path
HwOutcomes ==
  {[vpp |-> pt, push |-> "OK"] : pt \in VppPoints}
  \cup {[vpp |-> "none", push |-> r] : r \in PushReturns}

BasicOutcomes ==
  {[basic |-> pt, bpush |-> "OK"] : pt \in BasicPoints}
  \cup {[basic |-> "none", bpush |-> r] : r \in PushReturns}

outcome(io, h, b, accepted) ==
  [io |-> io, vpp |-> h.vpp, push |-> h.push, basic |-> b.basic,
   bpush |-> b.bpush, accepted |-> accepted]

no_failure == [vpp |-> "none", push |-> "OK", basic |-> "none", bpush |-> "OK"]

\* the hardware-path steps whose failure hands the frame to the basic path
FallbackOutcomes ==
  {h \in HwOutcomes :
     h.vpp \in {"refs1", "none1", "deint2", "refs2", "none2"}
       \/ h.push = "NOT_SUPPORTED"}

\* One failing step per path: any step of the hardware path on a backend that
\* takes every method or only bob, a plugin-base step, a failing step of the
\* basic path after the hardware path handed the frame over, and a backend
\* that takes no method at all.
TransformOutcomes ==
  {outcome("none", h, no_failure, {"bob", "motion-adaptive"}) : h \in HwOutcomes}
  \cup {outcome("none", h, no_failure, {"bob"}) : h \in HwOutcomes}
  \cup {outcome(io, no_failure, no_failure, {"bob", "motion-adaptive"}) :
          io \in {"input", "vabuf", "syscopy"}}
  \cup {outcome("none", h, b, {"bob", "motion-adaptive"}) :
          h \in FallbackOutcomes, b \in BasicOutcomes}
  \cup {outcome("none", no_failure, b, {}) : b \in BasicOutcomes}

neg_outcome(point, rej) ==
  [parse_sink_ok |-> point # "parse_sink", parse_src_ok |-> point # "parse_src",
   open_ok |-> point # "open", display_ok |-> point # "display",
   filter_ok |-> point # "filter", ops_ok |-> point # "ops",
   formats_ok |-> point # "formats",
   base_set_caps_ok |-> point # "base_set_caps",
   colorimetry_ok |-> point # "colorimetry", hdr_ok |-> point # "hdr",
   hdr_meta_ok |-> point # "hdr_meta", pool_ok |-> point # "pool",
   rej |-> rej]

Buffers ==
  {[pts |-> InputPts, duration |-> GST_CLOCK_TIME_NONE, tff |-> t,
    interlaced |-> i, discont |-> d, valid |-> TRUE] :
     t \in BOOLEAN, i \in BOOLEAN, d \in BOOLEAN}
  \cup {[pts |-> InputPts, duration |-> GST_CLOCK_TIME_NONE, tff |-> FALSE,
         interlaced |-> FALSE, discont |-> FALSE, valid |-> FALSE]}

-----------------------------------------------------------------------------
(* Actions.  An entry point runs to completion in one step and leaves what *)
(* it reported in last; Return is the caller taking that report, after     *)
(* which the next entry point can be called.                               *)

Start ==
  /\ last = idle
  /\ ~pp.running
  /\ \E point \in {"none", "filter"} :
       \E r \in {gst_vaapipostprocess_start(pp, neg_outcome(point, {}))} :
         /\ pp' = [r.p EXCEPT !.running = r.ok]
         /\ last' = [op |-> "start", ret |-> r.ok]

Stop ==
  /\ last = idle
  /\ pp.running
  /\ pp' = [gst_vaapipostprocess_stop(pp) EXCEPT !.running = FALSE,
                                                 !.negotiated = FALSE]
  /\ last' = [op |-> "stop"]

SetProperty ==
  /\ last = idle
  /\ \E prop \in {"deinterlace-mode", "deinterlace-method", "denoise"} :
       \E value \in (CASE prop = "deinterlace-mode" -> Modes
                       [] prop = "deinterlace-method" -> FrameMethods
                       [] prop = "denoise" -> {1}) :
         pp' = gst_vaapipostprocess_set_property(pp, prop, value)
  /\ last' = [op |-> "set_property"]

SetCaps ==
  /\ last = idle
  /\ pp.running
  /\ \E caps \in FrameCaps, point \in {"none", "filter", "pool"} :
       \E r \in {gst_vaapipostprocess_set_caps(pp, caps, caps,
                                               neg_outcome(point, {}))} :
         /\ pp' = [r.p EXCEPT !.negotiated = r.ret]
         /\ last' = [op |-> "set_caps", caps |-> caps, out_caps |-> caps,
                     ret |-> r.ret, sink_ok |-> r.sink_ok,
                     passthrough_set |-> r.passthrough_set,
                     rebuild |-> r.rebuild]

\* what one transform call did, as seen from outside
transform_report(p, buf, r) ==
  [op |-> "transform", buf |-> buf, ret |-> r.ret, paths |-> r.paths,
   frames |-> r.frames, nprocess |-> r.nprocess, gathered |-> r.gathered,
   refs |-> r.refs,
   deint |-> should_deinterlace_buffer(p.flags, p.deinterlace_mode,
                                       p.sinkpad_info.interlace_mode,
                                       buf.interlaced),
   tff_changed |-> buf.tff # p.ds.tff,
   flags_before |-> p.flags, ds_before |-> p.ds,
   method_before |-> p.deinterlace_method, labels |-> r.labels,
   rets |-> r.rets]

\* In passthrough mode GstBaseTransform hands the input buffer on without
\* calling the transform function.
base_passthrough(p, buf) ==
  [ret |-> "OK", p |-> p,
   frames |-> <<[pts |-> buf.pts, duration |-> buf.duration,
                 discont |-> buf.discont, structure |-> "unchanged"]>>,
   nprocess |-> 0, gathered |-> FALSE, refs |-> <<>>, reset |-> FALSE,
   recorded |-> FALSE, paths |-> <<"base">>,
   labels |-> <<"">>, rets |-> <<"OK">>]

\* One buffer through the element.
Transform ==
  /\ last = idle
  /\ pp.running /\ pp.negotiated
  /\ \E buf \in Buffers :
       IF pp.passthrough
         THEN /\ pp' = pp
              /\ last' = transform_report(pp, buf, base_passthrough(pp, buf))
         ELSE \E o \in TransformOutcomes :
                \E r \in {gst_vaapipostprocess_transform(pp, buf, o)} :
                  /\ pp' = r.p
                  /\ last' = transform_report(pp, buf, r)

Return ==
  /\ last # idle
  /\ last' = idle
  /\ pp' = pp

Init ==
  /\ pp = gst_vaapipostprocess_init
  /\ last = idle

Next ==
  \/ Start
  \/ Stop
  \/ SetProperty
  \/ SetCaps
  \/ Transform
  \/ Return

Spec == Init /\ [][Next]_vars

-----------------------------------------------------------------------------
(* Negotiation specification: properties, fixation and set_caps over caps  *)
(* that differ in interlace mode, frame rate and size; no buffers flow.    *)

NegCaps ==
  {[format |-> "NV12", width |-> 640, height |-> 480, interlace_mode |-> c[1],
    fps_n |-> c[2], fps_d |-> 1, va_surface |-> TRUE, hdr |-> FALSE] :
     c \in {<<"progressive", 25>>, <<"interleaved", 25>>,
            <<"interleaved", 50>>, <<"progressive", 0>>}}

\* the source caps that go with sink caps: the same, or scaled down
NegSrcCaps(caps) == {caps, [caps EXCEPT !.width = 320, !.height = 240]}

ConfigureProperty ==
  /\ last = idle
  /\ \E prop \in {"deinterlace-mode", "denoise"} :
       \E value \in (CASE prop = "deinterlace-mode" -> Modes
                       [] prop = "denoise" -> {0, 1}) :
         pp' = gst_vaapipostprocess_set_property(pp, prop, value)
  /\ last' = [op |-> "set_property"]

FixateCaps ==
  /\ last = idle
  /\ pp.running
  /\ \E caps \in NegCaps, point \in {"none", "filter"},
        rej \in {{}, {"DENOISE"}} :
       \E outcaps \in NegSrcCaps(caps) \cup {NoCaps} :
         \E r \in {gst_vaapipostprocess_fixate_caps(pp, "sink", caps, outcaps,
                                                    neg_outcome(point, rej))} :
           /\ pp' = r.p
           /\ last' = [op |-> "fixate_caps", caps |-> caps,
                       outcaps |-> r.outcaps,
                       passthrough_set |-> r.passthrough_set,
                       attempted |-> r.attempted, apply_ok |-> r.apply_ok]

NegotiateCaps ==
  /\ last = idle
  /\ pp.running
  /\ \E caps \in NegCaps, point \in {"none", "parse_sink", "filter"},
        rej \in {{}, {"DENOISE"}} :
       \E out_caps \in NegSrcCaps(caps) :
         \E r \in {gst_vaapipostprocess_set_caps(pp, caps, out_caps,
                                                 neg_outcome(point, rej))} :
           /\ pp' = [r.p EXCEPT !.negotiated = r.ret]
           /\ last' = [op |-> "set_caps", caps |-> caps, out_caps |-> out_caps,
                       ret |-> r.ret, sink_ok |-> r.sink_ok,
                       passthrough_set |-> r.passthrough_set]

NextCaps ==
  \/ Start
  \/ Stop
  \/ ConfigureProperty
  \/ FixateCaps
  \/ NegotiateCaps
  \/ Return

SpecCaps == Init /\ [][NextCaps]_vars

-----------------------------------------------------------------------------
(* Format specification: set_caps over native and non-native sink formats  *)
(* under simple and advanced deinterlace methods, with the steps of        *)
(* set_caps that can fail failing one at a time.                           *)

FormatCaps ==
  {[format |-> f, width |-> 640, height |-> 480, interlace_mode |-> im,
    fps_n |-> 25, fps_d |-> 1, va_surface |-> TRUE, hdr |-> FALSE] :
     f \in {"NV12", "YV12", "I420", "RGBA"},
     im \in {"progressive", "interleaved"}}

\* the source caps that go with sink caps: the same, or converted to NV12
FormatSrcCaps(caps) == {caps, [caps EXCEPT !.format = "NV12"]}

FormatMethods == {"bob", "motion-adaptive", "motion-compensated"}

FormatPoints == {"none", "parse_src", "pool"}

ConfigureMethod ==
  /\ last = idle
  /\ \E value \in FormatMethods :
       pp' = gst_vaapipostprocess_set_property(pp, "deinterlace-method", value)
  /\ last' = [op |-> "set_property"]

NegotiateFormat ==
  /\ last = idle
  /\ pp.running
  /\ \E caps \in FormatCaps, point \in FormatPoints :
       \E out_caps \in FormatSrcCaps(caps) :
         \E r \in {gst_vaapipostprocess_set_caps(pp, caps, out_caps,
                                                 neg_outcome(point, {}))} :
           /\ pp' = [r.p EXCEPT !.negotiated = r.ret]
           /\ last' = [op |-> "set_caps", caps |-> caps, out_caps |-> out_caps,
                       point |-> point, ret |-> r.ret, sink_ok |-> r.sink_ok,
                       rebuild |-> r.rebuild, before |-> pp]

NextFormat ==
  \/ Start
  \/ ConfigureMethod
  \/ NegotiateFormat
  \/ Return

SpecFormat == Init /\ [][NextFormat]_vars

-----------------------------------------------------------------------------
(* Parameter specification: operations are set to default and non-default  *)
(* values and applied when the source caps are fixated, on an engine that   *)
(* may reject a push.                                                       *)

ParamValues ==
  [denoise |-> {0, 1},
   crop_left |-> {0, 1},
   skin_tone |-> {0, 1},
   skin_tone_level |-> {3, 4},
   video_direction |-> {"identity", "90r", "auto"}]

ParamCaps ==
  [format |-> "NV12", width |-> 640, height |-> 480,
   interlace_mode |-> "progressive", fps_n |-> 25, fps_d |-> 1,
   va_surface |-> TRUE, hdr |-> FALSE]

\* the directions given to gst_vaapi_filter_set_video_direction by one call
pushed_directions(pushed) ==
  {x[2] : x \in {y \in pushed : y[1] = "VIDEO_DIRECTION"}}

SetOperation ==
  /\ last = idle
  /\ \/ \E v \in ParamValues.denoise :
          pp' = gst_vaapipostprocess_set_property(pp, "denoise", v)
     \/ \E v \in ParamValues.crop_left :
          pp' = gst_vaapipostprocess_set_property(pp, "crop-left", v)
     \/ \E v \in ParamValues.skin_tone :
          pp' = gst_vaapipostprocess_set_property(pp,
                  "skin-tone-enhancement", v)
     \/ \E v \in ParamValues.skin_tone_level :
          pp' = gst_vaapipostprocess_set_property(pp,
                  "skin-tone-enhancement-level", v)
     \/ \E v \in ParamValues.video_direction :
          pp' = gst_vaapipostprocess_set_property(pp, "video-direction", v)
  /\ last' = [op |-> "set_property"]

FixateParams ==
  /\ last = idle
  /\ pp.running
  /\ \E point \in {"none", "filter"},
        rej \in {{}, {"DENOISE"}, {"VIDEO_DIRECTION"}, {"SKINTONE_LEVEL"}} :
       \E outcaps \in NegSrcCaps(ParamCaps) \cup {NoCaps} :
         \E r \in {gst_vaapipostprocess_fixate_caps(pp, "sink", ParamCaps,
                     outcaps, neg_outcome(point, rej))} :
           /\ pp' = r.p
           /\ last' = [op |-> "fixate_caps", caps |-> ParamCaps,
                       outcaps |-> r.outcaps, flags_before |-> pp.flags,
                       passthrough_set |-> r.passthrough_set,
                       attempted |-> r.attempted, apply_ok |-> r.apply_ok,
                       directions |-> pushed_directions(r.pushed),
                       pushed_ops |-> {x[1] : x \in r.pushed}]

TagOrientations == {"", "rotate-0", "rotate-90", "flip-rotate-180", "rotate-45"}

SinkEventTag ==
  /\ last = idle
  /\ \E orientation \in TagOrientations :
       /\ pp' = gst_vaapipostprocess_sink_event(pp, orientation)
       /\ last' = [op |-> "sink_event", orientation |-> orientation,
                   flags_before |-> pp.flags,
                   tag_before |-> pp.tag_video_direction,
                   direction_before |-> pp.video_direction]

NextParams ==
  \/ Start
  \/ SetOperation
  \/ SinkEventTag
  \/ FixateParams
  \/ Return

SpecParams == Init /\ [][NextParams]_vars

-----------------------------------------------------------------------------
(* The property setter as a function of the property, the value and the    *)
(* state it is called in                                                   *)

Properties ==
  {"format", "deinterlace-mode", "deinterlace-method", "denoise", "sharpen",
   "hue", "saturation", "brightness", "contrast", "scale-method",
   "video-direction", "skin-tone-enhancement", "skin-tone-enhancement-level",
   "crop-left", "crop-right", "crop-top", "crop-bottom", "hdr-tone-map"}

\* values of each property, the default first
PropertyValues(prop) ==
  CASE prop = "format" -> <<"ENCODED", "NV12">>
    [] prop = "deinterlace-mode" -> <<"auto", "interlaced", "disabled">>
    [] prop = "deinterlace-method" -> <<"bob", "motion-adaptive">>
    [] prop \in {"saturation", "contrast"} -> <<1, 2>>
    [] prop = "video-direction" -> <<"identity", "90r", "auto">>
    [] prop = "skin-tone-enhancement-level" -> <<3, 4>>
    [] prop = "hdr-tone-map" -> <<"auto", "disabled", "gop">>
    [] OTHER -> <<0, 1>>

\* the setter is called with the choice-th value of the property
InitProperty ==
  /\ pp \in {[gst_vaapipostprocess_init EXCEPT !.flags = f] :
               f \in {{}, {"DENOISE", "CROP"}, FlagNames}}
  /\ last \in {[op |-> "property", prop |-> prop, choice |-> i] :
                 prop \in Properties, i \in 1..3}
  /\ last.choice <= Len(PropertyValues(last.prop))

SetAnyProperty ==
  /\ last.op = "property"
  /\ pp' = gst_vaapipostprocess_set_property(pp, last.prop,
             PropertyValues(last.prop)[last.choice])
  /\ last' = [op |-> "property_set", prop |-> last.prop,
              choice |-> last.choice, flags_before |-> pp.flags]

NextProperty == SetAnyProperty

SpecProperty == InitProperty /\ [][NextProperty]_vars

-----------------------------------------------------------------------------
(* The per-frame decision as a function of its inputs                      *)

InitDecision ==
  /\ pp \in {[gst_vaapipostprocess_init EXCEPT
                !.flags = f, !.deinterlace_mode = m,
                !.sinkpad_info = [@ EXCEPT !.interlace_mode = im]] :
               f \in {{}, {"DEINTERLACE"}}, m \in Modes, im \in InterlaceModes}
  /\ last \in {[op |-> "buffer", buf |-> b] : b \in {x \in Buffers : x.valid}}

Decide ==
  /\ last.op = "buffer"
  /\ last' = [op |-> "decide", buf |-> last.buf,
              deint |-> should_deinterlace_buffer(pp.flags, pp.deinterlace_mode,
                          pp.sinkpad_info.interlace_mode, last.buf.interlaced)]
  /\ pp' = pp

NextDecision == Decide

SpecDecision == InitDecision /\ [][NextDecision]_vars

-----------------------------------------------------------------------------
(* The method ladder as a function of the configured method and of the     *)
(* methods the backend takes                                               *)

InitLadder ==
  /\ pp \in {[gst_vaapipostprocess_init EXCEPT !.deinterlace_method = m] :
               m \in Methods}
  /\ last \in {[op |-> "backend", accepted |-> a] : a \in SUBSET Methods}

Ladder ==
  /\ last.op = "backend"
  /\ last' = [op |-> "ladder", accepted |-> last.accepted,
              result |-> set_best_deint_method(pp.deinterlace_method,
                                               last.accepted)]
  /\ pp' = pp

NextLadder == Ladder

SpecLadder == InitLadder /\ [][NextLadder]_vars

-----------------------------------------------------------------------------
(* Cropping specification: the four margins are set to values that fit and *)
(* that do not fit a 640x480 sink, downstream does or does not take the    *)
(* crop meta, and frames with and without a crop meta are processed.       *)

CropMargins ==
  [crop_left |-> {0, 10, 400}, crop_right |-> {0, 10, 400},
   crop_top |-> {0, 300}, crop_bottom |-> {0, 300}]

CropCaps ==
  [format |-> "NV12", width |-> 640, height |-> 480,
   interlace_mode |-> "progressive", fps_n |-> 25, fps_d |-> 1,
   va_surface |-> TRUE, hdr |-> FALSE]

CropBuffers ==
  {[pts |-> InputPts, duration |-> GST_CLOCK_TIME_NONE, tff |-> FALSE,
    interlaced |-> FALSE, discont |-> FALSE, valid |-> TRUE,
    crop_meta |-> m,
    render_rect |-> [x |-> 0, y |-> 0, width |-> 640, height |-> 480]] :
     m \in {[present |-> FALSE, x |-> 0, y |-> 0],
            [present |-> TRUE, x |-> 4, y |-> 2]}}

ConfigureCrop ==
  /\ last = idle
  /\ \/ \E v \in CropMargins.crop_left :
          pp' = gst_vaapipostprocess_set_property(pp, "crop-left", v)
     \/ \E v \in CropMargins.crop_right :
          pp' = gst_vaapipostprocess_set_property(pp, "crop-right", v)
     \/ \E v \in CropMargins.crop_top :
          pp' = gst_vaapipostprocess_set_property(pp, "crop-top", v)
     \/ \E v \in CropMargins.crop_bottom :
          pp' = gst_vaapipostprocess_set_property(pp, "crop-bottom", v)
  /\ last' = [op |-> "set_property"]

DecideAllocation ==
  /\ last = idle
  /\ pp.running
  /\ \E crop_meta_api \in BOOLEAN, video_meta_api \in BOOLEAN :
       pp' = gst_vaapipostprocess_decide_allocation(pp, crop_meta_api,
                                                    video_meta_api)
  /\ last' = [op |-> "decide_allocation"]

NegotiateCrop ==
  /\ last = idle
  /\ pp.running
  /\ \E out_caps \in NegSrcCaps(CropCaps) :
       \E r \in {gst_vaapipostprocess_set_caps(pp, CropCaps, out_caps,
                                               neg_outcome("none", {}))} :
         /\ pp' = [r.p EXCEPT !.negotiated = r.ret]
         /\ last' = [op |-> "set_caps", caps |-> CropCaps,
                     out_caps |-> out_caps, ret |-> r.ret]

\* what one transform call did with the crop rectangle
crop_report(p, buf, r) ==
  [op |-> "transform", buf |-> buf, ret |-> r.ret, paths |-> r.paths,
   nprocess |-> r.nprocess, use_vpp_crop |-> use_vpp_crop(p),
   crop_rect |-> process_vpp_crop_rect(p, buf)]

CropFrame ==
  /\ last = idle
  /\ pp.running /\ pp.negotiated
  /\ \E buf \in CropBuffers :
       IF pp.passthrough
         THEN /\ pp' = pp
              /\ last' = crop_report(pp, buf, base_passthrough(pp, buf))
         ELSE \E r \in {gst_vaapipostprocess_transform(pp, buf,
                          outcome("none", no_failure, no_failure,
                                  {"bob", "motion-adaptive"}))} :
                /\ pp' = r.p
                /\ last' = crop_report(pp, buf, r)

NextCrop ==
  \/ Start
  \/ ConfigureCrop
  \/ DecideAllocation
  \/ NegotiateCrop
  \/ CropFrame
  \/ Return

SpecCrop == Init /\ [][NextCrop]_vars

-----------------------------------------------------------------------------
(* The crop-meta rotation as a function of the direction, the video meta   *)
(* and the rectangle: up to MaxRotations rotations are applied in a row,   *)
(* each with the video meta of the frame it is applied to or with the      *)
(* video meta of the first frame.                                          *)

MaxRotations == 2

Directions ==
  {"identity", "90r", "180", "90l", "horiz", "vert", "ul-lr", "ur-ll", "auto"}

InitRotate ==
  /\ pp \in {[gst_vaapipostprocess_init EXCEPT !.has_vpp = h] : h \in BOOLEAN}
  /\ last \in
       {[op |-> "crop_meta", applied |-> <<>>, first |-> v, frame |-> v,
         original |-> c, crop |-> c] :
          v \in {[present |-> TRUE, width |-> 640, height |-> 480],
                 [present |-> TRUE, width |-> 16, height |-> 16],
                 [present |-> FALSE, width |-> 0, height |-> 0]},
          c \in {[x |-> guint(x), y |-> guint(y), width |-> guint(w),
                  height |-> guint(h)] :
                   x \in {0, 10}, y \in {0, 6}, w \in {620, 16}, h \in {480, 8}}}

\* one frame through an element whose filter has the given direction; the
\* frame that leaves it has width and height swapped for the 90-degree ones
RotateCrop ==
  /\ last.op = "crop_meta"
  /\ Len(last.applied) < MaxRotations
  /\ \E direction \in Directions, meta \in {"frame", "first"} :
       /\ last' = [last EXCEPT
            !.applied = Append(@, <<direction, meta>>),
            !.crop = rotate_crop_meta(pp, direction,
                       IF meta = "frame" THEN last.frame ELSE last.first, @),
            !.frame = IF direction \in {"90r", "90l", "ul-lr", "ur-ll"}
                        THEN [@ EXCEPT !.width = last.frame.height,
                                       !.height = last.frame.width]
                        ELSE @]
       /\ pp' = pp

SpecRotate == InitRotate /\ [][RotateCrop]_vars

-----------------------------------------------------------------------------
(* The navigation event handler as a function of the negotiated extents,   *)
(* the margins, the direction of the filter and the pointer.               *)

InitNavigation ==
  /\ pp \in
       {[gst_vaapipostprocess_init EXCEPT
           !.has_vpp = has_vpp,
           !.crop_left = m[1], !.crop_right = m[2],
           !.crop_top = m[3], !.crop_bottom = m[4],
           !.flags = IF m = <<0, 0, 0, 0>> THEN {} ELSE {"CROP"},
           !.sinkpad_info = [@ EXCEPT !.format = "NV12", !.width = 640,
                                      !.height = 480],
           !.srcpad_info = [@ EXCEPT !.format = "NV12", !.width = s[1],
                                     !.height = s[2]]] :
          has_vpp \in BOOLEAN,
          m \in {<<0, 0, 0, 0>>, <<10, 10, 0, 0>>, <<10, 20, 30, 40>>,
                 <<400, 400, 0, 0>>},
          s \in {<<640, 480>>, <<320, 240>>, <<480, 640>>}}
  /\ last \in
       {[op |-> "navigation", direction |-> d,
         ev |-> [has_pointer |-> hp, x |-> c[1], y |-> c[2]]] :
          d \in Directions, hp \in BOOLEAN,
          c \in {<<0, 0>>, <<5, 7>>, <<239, 239>>}}

SrcEvent ==
  /\ last.op = "navigation"
  /\ last' = [op |-> "src_event", direction |-> last.direction, ev |-> last.ev,
              out |-> gst_vaapipostprocess_src_event(pp, last.direction,
                                                     last.ev)]
  /\ pp' = pp

SpecNavigation == InitNavigation /\ [][SrcEvent]_vars

-----------------------------------------------------------------------------
(* HDR tone-mapping specification: the sink caps do or do not carry the    *)
(* mastering-display metadata, the hdr-tone-map property is auto or        *)
(* disabled, and the engine takes or rejects the tone-map switch and the   *)
(* metadata.                                                               *)

ConfigureHdr ==
  /\ last = idle
  /\ \E v \in {"auto", "disabled"} :
       pp' = gst_vaapipostprocess_set_property(pp, "hdr-tone-map", v)
  /\ last' = [op |-> "set_property"]

NegotiateHdr ==
  /\ last = idle
  /\ pp.running
  /\ \E hdr \in BOOLEAN, width \in {640, 320},
        point \in {"none", "filter", "hdr", "hdr_meta"} :
       \E caps \in {[format |-> "NV12", width |-> width, height |-> 480,
                     interlace_mode |-> "progressive", fps_n |-> 25,
                     fps_d |-> 1, va_surface |-> TRUE, hdr |-> hdr]} :
         \E r \in {gst_vaapipostprocess_set_caps(pp, caps, caps,
                                                 neg_outcome(point, {}))} :
           /\ pp' = [r.p EXCEPT !.negotiated = r.ret]
           /\ last' = [op |-> "set_caps", caps |-> caps, ret |-> r.ret,
                       point |-> point, changed |-> r.rebuild.changed,
                       flag_before |-> "HDR_TONE_MAP" \in pp.flags]

SpecHdr ==
  Init /\ [][Start \/ Stop \/ ConfigureHdr \/ NegotiateHdr \/ Return]_vars

-----------------------------------------------------------------------------
(* Locking specification: three threads run one entry point each, a        *)
(* statement at a time: the application sets a property, the application   *)
(* sets a colour-balance channel, and the streaming thread handles a tag   *)
(* event.  last holds who has postprocess_lock, who made the last step,    *)
(* and each thread's position and locals.  "flags |= x" outside the lock   *)
(* is a load followed by a store.                                          *)

CB_CHANNEL_FACTOR == 1000

\* cb_channels_ess: the value and the flag a channel label stands for
cb_get_value_ptr(channel) ==
  CASE channel = "VA_FILTER_HUE" -> [var |-> "hue", flags |-> "HUE"]
    [] channel = "VA_FILTER_SATURATION" ->
         [var |-> "saturation", flags |-> "SATURATION"]
    [] channel = "VA_FILTER_BRIGHTNESS" ->
         [var |-> "brightness", flags |-> "BRIGHTNESS"]
    [] channel = "VA_FILTER_CONTRAST" ->
         [var |-> "contrast", flags |-> "CONTRAST"]

InitLock ==
  /\ pp = gst_vaapipostprocess_init
  /\ last = [op |-> "threads", holder |-> "none", writer |-> "none",
             app |-> [pc |-> "idle", prop |-> "", value |-> 0],
             balance |-> [pc |-> "idle", channel |-> ""],
             stream |-> [pc |-> "idle", flags |-> {}]]

\* gst_vaapipostprocess_set_property: lock, the switch, unlock
SetPropertyStep ==
  \/ /\ last.app.pc = "idle" /\ last.holder = "none"
     /\ \E prop \in {"hue", "denoise"}, i \in 1..2 :
          last' = [last EXCEPT !.holder = "app", !.writer = "app",
                               !.app = [pc |-> "switch", prop |-> prop,
                                        value |-> PropertyValues(prop)[i]]]
     /\ pp' = pp
  \/ /\ last.app.pc = "switch"
     /\ pp' = gst_vaapipostprocess_set_property(pp, last.app.prop,
                                                last.app.value)
     /\ last' = [last EXCEPT !.writer = "app", !.app.pc = "unlock"]
  \/ /\ last.app.pc = "unlock"
     /\ pp' = pp
     /\ last' = [last EXCEPT !.holder = "none", !.writer = "app",
                             !.app = [pc |-> "idle", prop |-> "", value |-> 0]]

\* gst_vaapipostprocess_colorbalance_set_value with a value inside the
\* channel's range: *var = new_val, lock, flags |= flags, unlock
ColorBalanceSetValueStep ==
  \/ /\ last.balance.pc = "idle"
     /\ \E channel \in {"VA_FILTER_HUE", "VA_FILTER_SATURATION"},
           value \in {1000, 2000} :
          /\ pp' = [pp EXCEPT ![cb_get_value_ptr(channel).var] =
                                 value \div CB_CHANNEL_FACTOR]
          /\ last' = [last EXCEPT !.writer = "balance",
                                  !.balance = [pc |-> "lock",
                                               channel |-> channel]]
  \/ /\ last.balance.pc = "lock" /\ last.holder = "none"
     /\ pp' = pp
     /\ last' = [last EXCEPT !.holder = "balance", !.writer = "balance",
                             !.balance.pc = "flags"]
  \/ /\ last.balance.pc = "flags"
     /\ pp' = [pp EXCEPT !.flags =
                 @ \cup {cb_get_value_ptr(last.balance.channel).flags}]
     /\ last' = [last EXCEPT !.writer = "balance", !.balance.pc = "unlock"]
  \/ /\ last.balance.pc = "unlock"
     /\ pp' = pp
     /\ last' = [last EXCEPT !.holder = "none", !.writer = "balance",
                             !.balance = [pc |-> "idle", channel |-> ""]]

\* gst_vaapipostprocess_sink_event with a tag: tag_video_direction is
\* stored, then flags is loaded, or-ed and stored; the lock is not taken
SinkEventStep ==
  \/ /\ last.stream.pc = "idle"
     /\ \E orientation \in {"rotate-90", "flip-rotate-0"} :
          pp' = [pp EXCEPT !.tag_video_direction =
                   gst_vaapipostprocess_sink_event(pp, orientation)
                     .tag_video_direction]
     /\ last' = [last EXCEPT !.writer = "stream", !.stream.pc = "load"]
  \/ /\ last.stream.pc = "load"
     /\ pp' = pp
     /\ last' = [last EXCEPT !.writer = "stream",
                             !.stream = [pc |-> "store", flags |-> pp.flags]]
  \/ /\ last.stream.pc = "store"
     /\ pp' = [pp EXCEPT !.flags = last.stream.flags
                                     \cup {"VIDEO_DIRECTION"}]
     /\ last' = [last EXCEPT !.writer = "stream",
                             !.stream = [pc |-> "idle", flags |-> {}]]

SpecLock ==
  InitLock
    /\ [][SetPropertyStep \/ ColorBalanceSetValueStep \/ SinkEventStep]_vars

-----------------------------------------------------------------------------
(* Deinterlace history specification: an element negotiated for mixed      *)
(* content with the motion-adaptive method is fed up to MaxFrames frames,  *)
(* each with its own timestamp.  last keeps the frames that went through   *)
(* ds_add_buffer since the last ds_reset, newest first (log), next to what *)
(* the last transform call did.                                            *)

MaxFrames == 4

\* no frame has entered the hardware path yet
no_decision == [seen |-> FALSE, deint |-> FALSE]

\* what a call other than a frame leaves in last: the frame count n, the
\* log, which call it was, and the decision of the last frame that entered
\* the hardware path
history_report(n, log, did, hw) ==
  [op |-> "history", n |-> n, log |-> log, prior |-> log, did |-> did,
   refs |-> <<>>, gathered |-> FALSE, recorded |-> FALSE, reset |-> FALSE,
   ret |-> "OK", vpp_ret |-> "NONE", buf |-> NoBuffer, ds_before |-> ds_init,
   method_before |-> "bob", deint |-> FALSE, entered |-> FALSE,
   changed |-> FALSE, hw |-> hw, hw_before |-> hw, applied |-> "",
   frame_applied |-> "", applied_before |-> ""]

InitHistory ==
  /\ pp \in {[gst_vaapipostprocess_set_caps(
                [gst_vaapipostprocess_start(
                   gst_vaapipostprocess_set_property(
                     gst_vaapipostprocess_init, "deinterlace-method",
                     "motion-compensated"),
                   neg_outcome("none", {})).p EXCEPT !.running = TRUE],
                caps, caps, neg_outcome("none", {})).p
                EXCEPT !.negotiated = TRUE] :
               caps \in {c \in FrameCaps : c.interlace_mode = "mixed"}}
  /\ last = history_report(0, <<>>, "set_caps", no_decision)

\* gst_vaapipostprocess_stop, then gst_vaapipostprocess_start when the
\* element is brought up again
HistoryStop ==
  /\ last.op = "history"
  /\ pp.running
  /\ pp' = [gst_vaapipostprocess_stop(pp) EXCEPT !.running = FALSE,
                                                 !.negotiated = FALSE]
  /\ last' = [history_report(last.n, <<>>, "stop", last.hw)
                EXCEPT !.ds_before = pp.ds, !.applied = last.applied,
                       !.applied_before = last.applied]

HistoryStart ==
  /\ last.op = "history"
  /\ ~pp.running
  /\ \E r \in {gst_vaapipostprocess_start(pp, neg_outcome("none", {}))} :
       /\ pp' = [r.p EXCEPT !.running = r.ok]
       /\ last' = [history_report(last.n, <<>>, "start", last.hw)
                     EXCEPT !.applied = last.applied,
                            !.applied_before = last.applied]

\* set_caps with the same or with other caps
HistorySetCaps ==
  /\ last.op = "history"
  /\ pp.running
  /\ \E caps \in FrameCaps :
       \E r \in {gst_vaapipostprocess_set_caps(pp, caps, caps,
                                               neg_outcome("none", {}))} :
         /\ pp' = [r.p EXCEPT !.negotiated = r.ret]
         /\ last' = [history_report(last.n,
                                    IF r.rebuild.changed THEN <<>> ELSE last.log,
                                    "set_caps", last.hw)
                       EXCEPT !.changed = r.rebuild.changed,
                              !.ds_before = pp.ds,
                              !.applied = last.applied,
                              !.applied_before = last.applied]

\* whether the frame got as far as line 897 of process_vpp
entered_vpp(r, buf) == r.paths # <<>> /\ r.paths[1] = "vpp" /\ buf.valid

\* One frame through transform.  prior is the log as it stood when the
\* references were supplied: after the reset of line 902, before the add of
\* line 1052.
HistoryFrame ==
  /\ last.op = "history"
  /\ last.n < MaxFrames
  /\ pp.running /\ pp.negotiated /\ ~pp.passthrough
  /\ \E b \in {x \in Buffers : ~x.discont}, o \in TransformOutcomes :
       \E buf \in {[b EXCEPT !.pts = last.n + 1]} :
         \E r \in {gst_vaapipostprocess_transform(pp, buf, o)} :
           \E prior \in {IF r.reset THEN <<>> ELSE last.log} :
             /\ pp' = r.p
             /\ last' = [op |-> "history", n |-> last.n + 1, did |-> "frame",
                         entered |-> entered_vpp(r, buf), changed |-> FALSE,
                         hw_before |-> last.hw,
                         hw |-> IF entered_vpp(r, buf)
                                  THEN [seen |-> TRUE,
                                        deint |-> should_deinterlace_buffer(
                                          pp.flags, pp.deinterlace_mode,
                                          pp.sinkpad_info.interlace_mode,
                                          buf.interlaced)]
                                  ELSE last.hw,
                         log |-> IF r.recorded
                                   THEN SubSeq(<<[present |-> TRUE,
                                                  tff |-> buf.tff,
                                                  discont |-> buf.discont,
                                                  pts |-> buf.pts]>> \o prior,
                                               1,
                                               IF Len(prior) < DS_CAPACITY
                                                 THEN Len(prior) + 1
                                                 ELSE DS_CAPACITY + 1)
                                   ELSE prior,
                         prior |-> prior, refs |-> r.refs,
                         gathered |-> r.gathered, recorded |-> r.recorded,
                         reset |-> r.reset, ret |-> r.ret,
                         vpp_ret |-> IF entered_vpp(r, buf) THEN r.rets[1]
                                     ELSE "NONE",
                         buf |-> buf,
                         ds_before |-> pp.ds,
                         method_before |-> pp.deinterlace_method,
                         frame_applied |-> r.applied,
                         applied_before |-> last.applied,
                         applied |-> IF r.applied # "" THEN r.applied
                                     ELSE last.applied,
                         deint |-> should_deinterlace_buffer(pp.flags,
                                     pp.deinterlace_mode,
                                     pp.sinkpad_info.interlace_mode,
                                     buf.interlaced)]

SpecHistory ==
  InitHistory
    /\ [][HistoryFrame \/ HistoryStop \/ HistoryStart \/ HistorySetCaps]_vars

-----------------------------------------------------------------------------
(* Lock-path specification: two threads call the entry points that take    *)
(* postprocess_lock.  A call is followed from its entry to its return:     *)
(* the exits taken before the lock, g_mutex_lock, the locked region with   *)
(* its failure paths, g_mutex_unlock.  last holds who has the lock and     *)
(* each thread's position.                                                 *)

EntryPoints ==
  {"start", "stop", "transform_caps", "fixate_caps", "set_caps",
   "propose_allocation", "decide_allocation", "set_property", "get_property",
   "cb_channels_init", "colorbalance_set_value"}

\* The exits that come before g_mutex_lock: start when the plugin cannot be
\* opened (346-347), fixate_caps for the src direction (1474-1478),
\* propose_allocation when the sizes agree or are unknown (1803-1832),
\* cb_channels_init when the channels exist (2682-2683).
reaches_lock(entry, early) ==
  ~(early /\ entry \in {"start", "fixate_caps", "propose_allocation",
                        "cb_channels_init"})

\* a locked region that returns on failure without going through the unlock
after_locked_region_early(entry, ret) == IF ret THEN "unlock" ELSE "idle"

\* Where the code goes when the locked region is over: set_caps reaches
\* "done:" from every goto (1709-1764), cb_channels_init unlocks on both
\* branches (2686-2690), the other regions are straight-line code.
after_locked_region(entry, ret) == "unlock"

\* The locked region of an entry point, with the step that fails in it (the
\* engine gives no filter, the sink caps do not parse): [p, ret]
locked_region(p, entry, point) ==
  CASE entry = "start" ->
         [p |-> [gst_vaapipostprocess_start(p, neg_outcome(point, {})).p
                   EXCEPT !.running = TRUE],
          ret |-> TRUE]
    [] entry = "stop" ->
         [p |-> [gst_vaapipostprocess_stop(p) EXCEPT !.running = FALSE,
                                                     !.negotiated = FALSE],
          ret |-> TRUE]
    [] entry = "transform_caps" ->
         LET e == gst_vaapipostprocess_ensure_filter_caps(p,
                    neg_outcome(point, {}))
         IN  [p |-> e.p, ret |-> e.ok]
    [] entry = "fixate_caps" ->
         LET r == gst_vaapipostprocess_fixate_caps(p, "sink", ParamCaps,
                    ParamCaps, neg_outcome(point, {}))
         IN  [p |-> r.p, ret |-> r.outcaps # NoCaps]
    [] entry = "set_caps" ->
         LET r == gst_vaapipostprocess_set_caps(p, ParamCaps, ParamCaps,
                    neg_outcome(point, {}))
         IN  [p |-> [r.p EXCEPT !.negotiated = r.ret], ret |-> r.ret]
    [] entry = "propose_allocation" ->
         [p |-> [p EXCEPT !.flags = @ \cup {"SIZE"}], ret |-> TRUE]
    [] entry = "decide_allocation" ->
         [p |-> gst_vaapipostprocess_decide_allocation(p, TRUE, point = "none"),
          ret |-> TRUE]
    [] entry = "set_property" ->
         [p |-> gst_vaapipostprocess_set_property(p, "denoise",
                  1),
          ret |-> TRUE]
    [] entry = "get_property" -> [p |-> p, ret |-> TRUE]
    [] entry = "cb_channels_init" ->
         LET e == gst_vaapipostprocess_ensure_filter(p, TRUE, point = "none")
         IN  [p |-> e.p, ret |-> e.ok]
    [] entry = "colorbalance_set_value" ->
         [p |-> [p EXCEPT !.flags = @ \cup {"HUE"}], ret |-> TRUE]

InitCalls ==
  /\ pp = gst_vaapipostprocess_init
  /\ last = [op |-> "calls", holder |-> "none",
             t |-> [th \in {"app", "stream"} |->
                      [pc |-> "idle", entry |-> "", ret |-> TRUE]]]

\* One step of one thread's call: the entry with its early exits, the
\* g_mutex_lock, the locked region, the g_mutex_unlock.
LockedCallStep ==
  \E th \in {"app", "stream"} :
    \/ /\ last.t[th].pc = "idle"
       /\ \E entry \in EntryPoints, early \in BOOLEAN :
            /\ entry = "start" => ~pp.running
            /\ entry \in {"stop", "transform_caps", "fixate_caps", "set_caps",
                          "propose_allocation", "decide_allocation"}
                 => pp.running
            /\ last' = [last EXCEPT !.t[th] =
                          [pc |-> IF reaches_lock(entry, early)
                                    THEN "lock" ELSE "idle",
                           entry |-> IF reaches_lock(entry, early)
                                       THEN entry ELSE "",
                           ret |-> TRUE]]
       /\ pp' = pp
    \/ /\ last.t[th].pc = "lock"
       /\ last.holder = "none"
       /\ last' = [last EXCEPT !.holder = th, !.t[th].pc = "region"]
       /\ pp' = pp
    \/ /\ last.t[th].pc = "region"
       /\ \E point \in {"none", "filter", "parse_sink"} :
            \E r \in {locked_region(pp, last.t[th].entry, point)} :
              /\ pp' = r.p
              /\ last' = [last EXCEPT
                            !.t[th].pc =
                              after_locked_region(last.t[th].entry, r.ret),
                            !.t[th].ret = r.ret]
    \/ /\ last.t[th].pc = "unlock"
       /\ last' = [last EXCEPT !.holder = "none",
                                !.t[th] = [pc |-> "idle", entry |-> "",
                                           ret |-> TRUE]]
       /\ pp' = pp

SpecCalls == InitCalls /\ [][LockedCallStep]_vars

-----------------------------------------------------------------------------
(* Binding specification: start, stop, fixation, set_caps and frames, with *)
(* the steps that create the filter failing one at a time, among them the  *)
(* steps of gst_vaapipostprocess_create that come after the destroy.       *)

BindingPoints == {"none", "open", "display", "filter", "pool"}

NegotiateBinding ==
  /\ last = idle
  /\ pp.running
  /\ \E caps \in FrameCaps, point \in BindingPoints :
       \E r \in {gst_vaapipostprocess_set_caps(pp, caps, caps,
                                               neg_outcome(point, {}))} :
         /\ pp' = [r.p EXCEPT !.negotiated = r.ret]
         /\ last' = [op |-> "set_caps", caps |-> caps, out_caps |-> caps,
                     point |-> point, ret |-> r.ret, sink_ok |-> r.sink_ok,
                     rebuild |-> r.rebuild, before |-> pp]

SpecBinding ==
  Init /\ [][Start \/ Stop \/ FixateCaps \/ NegotiateBinding \/ Transform
               \/ Return]_vars

-----------------------------------------------------------------------------
(* Properties                                                              *)

\* C1: the per-frame decision is FALSE whenever the deinterlace flag is not
\* set or the mode is "disabled"; otherwise TRUE when the mode is
\* "interlaced"; otherwise (mode "auto") TRUE iff the sink interlace mode is
\* interleaved, or it is mixed and the buffer carries the interlaced flag.
C1_Decision ==
  last.op = "decide" =>
    (last.deint <=>
       /\ "DEINTERLACE" \in pp.flags
       /\ pp.deinterlace_mode # "disabled"
       /\ \/ pp.deinterlace_mode = "interlaced"
          \/ pp.sinkpad_info.interlace_mode = "interleaved"
          \/ /\ pp.sinkpad_info.interlace_mode = "mixed"
             /\ last.buf.interlaced)

\* C1 witness: mode auto on a mixed stream decides by the buffer's flag, and
\* the frame that carries it is deinterlaced
C1_Witness ==
  /\ last.op = "decide"
  /\ "DEINTERLACE" \in pp.flags
  /\ pp.deinterlace_mode = "auto"
  /\ pp.sinkpad_info.interlace_mode = "mixed"
  /\ last.buf.interlaced
  /\ last.deint

\* C2: for every configured method and every set of accepted methods the
\* ladder terminates; it tries the configured method first, then degrades
\* motion-compensated -> motion-adaptive -> bob (any other rejected method
\* goes to bob), tries no method twice, and stops at the first accepted
\* method or at bob; on a backend that takes only bob, motion-compensated
\* and motion-adaptive end with bob applied and success reported.
C2_Ladder ==
  last.op = "ladder" =>
    LET r == last.result
        n == Len(r.tried)
    IN  /\ ~r.diverged
        /\ n >= 1
        /\ r.tried[1] = pp.deinterlace_method
        /\ \A i \in 1..(n - 1) :
             /\ r.tried[i] \notin last.accepted
             /\ r.tried[i] # "bob"
             /\ r.tried[i + 1] = IF r.tried[i] = "motion-compensated"
                                   THEN "motion-adaptive" ELSE "bob"
        /\ \A i, j \in 1..n : r.tried[i] = r.tried[j] => i = j
        /\ r.method = r.tried[n]
        /\ r.method \in last.accepted \/ r.method = "bob"
        /\ r.success <=> r.method \in last.accepted
        /\ (/\ last.accepted = {"bob"}
            /\ pp.deinterlace_method \in {"motion-compensated",
                                          "motion-adaptive"})
             => r.method = "bob" /\ r.success

\* C2 witness: motion-compensated on a backend that takes only bob walks the
\* whole ladder
C2_Witness ==
  /\ last.op = "ladder"
  /\ pp.deinterlace_method = "motion-compensated"
  /\ last.accepted = {"bob"}
  /\ last.result.tried = <<"motion-compensated", "motion-adaptive", "bob">>
  /\ last.result.method = "bob"
  /\ last.result.success

\* C3: a frame for which deinterlacing is active and whose processing a
\* deinterlacing path (hardware or basic) completes yields exactly two output
\* frames, the first with the parity of the input's first field (top iff
\* top-field-first), the second with the opposite parity.
C3_TwoFields ==
  (/\ last.op = "transform" /\ last.deint /\ last.ret = "OK"
   /\ last.paths # <<>>
   /\ last.paths[Len(last.paths)] \in {"vpp", "basic"}) =>
    /\ Len(last.frames) = 2
    /\ last.frames[1].structure = IF last.buf.tff THEN "top" ELSE "bottom"
    /\ last.frames[2].structure = IF last.buf.tff THEN "bottom" ELSE "top"

\* C4: on the hardware path a frame the per-frame decision treats as
\* progressive has the engine invoked once and yields one output frame; the
\* engine is invoked twice only for a frame that is deinterlaced.
C4_EngineInvocations ==
  (last.op = "transform" /\ last.paths = <<"vpp">> /\ last.ret = "OK") =>
    /\ ~last.deint => (last.nprocess = 1 /\ Len(last.frames) = 1)
    /\ last.nprocess = 2 => last.deint

\* C5: whatever the backend does along the fallback chain, one input yields
\* at most two output frames.
C5_AtMostTwoFrames ==
  last.op = "transform" => Len(last.frames) <= 2

\* C6: for a deinterlaced input with timestamp T the first field emitted
\* carries T, the second T + field-duration, and both carry duration
\* field-duration, on the hardware path and on the basic path.
C6_FieldTimestamps ==
  (last.op = "transform" /\ last.deint /\ last.ret = "OK"
     /\ last.paths # <<"base">> /\ Len(last.frames) >= 2) =>
    /\ last.frames[1].pts = last.buf.pts
    /\ last.frames[1].duration = pp.field_duration
    /\ last.frames[2].pts = last.buf.pts + pp.field_duration
    /\ last.frames[2].duration = pp.field_duration

\* C7: after set_caps accepted sink caps with frame rate n/d, field-duration
\* is 1 second * d / n when deinterlacing is not enabled for that sink
\* format, half of it when it is, and 0 when n is not positive.
C7_FieldDuration ==
  (last.op = "set_caps" /\ last.ret) =>
    pp.field_duration =
      IF last.caps.fps_n > 0
        THEN (GST_SECOND * last.caps.fps_d) \div
               ((IF \/ pp.deinterlace_mode = "interlaced"
                    \/ /\ pp.deinterlace_mode = "auto"
                       /\ last.caps.interlace_mode # "progressive"
                   THEN 2 ELSE 1) * last.caps.fps_n)
        ELSE 0

\* C8: when the input carries the discontinuity flag, the first frame
\* emitted for it carries the flag and no later one does; outputs of an
\* input without the flag do not carry it.
C8_DiscontFirstFieldOnly ==
  (last.op = "transform" /\ last.paths # <<"base">>) =>
    \A i \in 1..Len(last.frames) :
      last.frames[i].discont <=> (last.buf.discont /\ i = 1)

\* C9: when the top-field-first flag of a frame differs from that of the
\* previous frame, the history is empty when the references for that frame
\* are gathered.
C9_NoStaleReferences ==
  (last.op = "transform" /\ last.gathered /\ last.tff_changed) =>
    last.refs = <<>>

\* C10: after fixate_caps in direction sink or set_caps decided the
\* passthrough mode with the filter engine available, passthrough is on only
\* if sink and source caps are equal and no parameter dirty bit is left.
C10_PassthroughOnlyWhenClean ==
  /\ (/\ last.op = "fixate_caps" /\ last.passthrough_set
      /\ pp.has_vpp /\ pp.passthrough) =>
       (last.caps = last.outcaps /\ pp.flags \ {"DEINTERLACE"} = {})
  /\ (/\ last.op = "set_caps" /\ last.passthrough_set
      /\ pp.has_vpp /\ pp.passthrough) =>
       (last.caps = last.out_caps /\ pp.flags \ {"DEINTERLACE"} = {})

\* the operations whose dirty bit is in flags all hold the value the engine
\* reports as their default
AllSetAtDefault(p, flags) ==
  /\ flags \subseteq {"DENOISE", "SKINTONE_LEVEL", "VIDEO_DIRECTION", "CROP"}
  /\ "DENOISE" \in flags => p.denoise_level = FilterDefault.DENOISE
  /\ "SKINTONE_LEVEL" \in flags =>
       p.skintone_value = FilterDefault.SKINTONE_LEVEL
  /\ "VIDEO_DIRECTION" \in flags =>
       (IF p.video_direction = "auto" THEN p.tag_video_direction
        ELSE p.video_direction) = FilterDefault.VIDEO_DIRECTION
  /\ "CROP" \in flags =>
       (p.crop_left = 0 /\ p.crop_right = 0 /\ p.crop_top = 0
          /\ p.crop_bottom = 0)

OperationBit(prop) ==
  CASE prop = "format" -> "FORMAT"
    [] prop \in {"deinterlace-mode", "deinterlace-method"} -> "DEINTERLACE"
    [] prop = "denoise" -> "DENOISE"
    [] prop = "sharpen" -> "SHARPEN"
    [] prop = "hue" -> "HUE"
    [] prop = "saturation" -> "SATURATION"
    [] prop = "brightness" -> "BRIGHTNESS"
    [] prop = "contrast" -> "CONTRAST"
    [] prop = "scale-method" -> "SCALE"
    [] prop = "video-direction" -> "VIDEO_DIRECTION"
    [] prop = "skin-tone-enhancement" -> "SKINTONE"
    [] prop = "skin-tone-enhancement-level" -> "SKINTONE_LEVEL"
    [] prop \in {"crop-left", "crop-right", "crop-top", "crop-bottom"} -> "CROP"
    [] prop = "hdr-tone-map" -> "HDR_TONE_MAP"

\* the value the instance holds for a property
StoredValue(p, prop) ==
  CASE prop = "format" -> p.format
    [] prop = "deinterlace-mode" -> p.deinterlace_mode
    [] prop = "deinterlace-method" -> p.deinterlace_method
    [] prop = "denoise" -> p.denoise_level
    [] prop = "sharpen" -> p.sharpen_level
    [] prop = "hue" -> p.hue
    [] prop = "saturation" -> p.saturation
    [] prop = "brightness" -> p.brightness
    [] prop = "contrast" -> p.contrast
    [] prop = "scale-method" -> p.scale_method
    [] prop = "video-direction" -> p.video_direction
    [] prop = "skin-tone-enhancement" -> p.skintone_enhance
    [] prop = "skin-tone-enhancement-level" -> p.skintone_value
    [] prop = "crop-left" -> p.crop_left
    [] prop = "crop-right" -> p.crop_right
    [] prop = "crop-top" -> p.crop_top
    [] prop = "crop-bottom" -> p.crop_bottom
    [] prop = "hdr-tone-map" -> p.hdr_tone_map

\* C12: for every operation and every value, the property setter stores the
\* value and sets the operation's dirty bit, whatever the previous state and
\* whether or not the value is the default.
C12_SetterStoresAndMarks ==
  last.op = "property_set" =>
    /\ StoredValue(pp, last.prop) = PropertyValues(last.prop)[last.choice]
    /\ OperationBit(last.prop) \in pp.flags


\* C13: the direction an apply attempt gives the engine is the direction of
\* the last recognized image-orientation tag when the explicit
\* video-direction is "auto", and the explicit direction otherwise; a tag
\* event never changes the explicit direction, a recognized orientation is
\* stored as its direction, and an unrecognized orientation string changes
\* neither the tag direction nor any dirty bit.
C13_DirectionSource ==
  /\ last.op = "fixate_caps" =>
       \A d \in last.directions :
          d = IF pp.video_direction = "auto" THEN pp.tag_video_direction
              ELSE pp.video_direction
  /\ last.op = "sink_event" =>
       /\ pp.video_direction = last.direction_before
       /\ last.orientation = "rotate-0" => pp.tag_video_direction = "identity"
       /\ last.orientation = "rotate-90" => pp.tag_video_direction = "90r"
       /\ last.orientation = "flip-rotate-180" => pp.tag_video_direction = "vert"
       /\ last.orientation = "rotate-45" =>
            /\ pp.tag_video_direction = last.tag_before
            /\ pp.flags = last.flags_before

\* explicit "auto" after a rotate-90 tag: the engine is given 90r
C13_Witness ==
  /\ last.op = "fixate_caps"
  /\ pp.video_direction = "auto"
  /\ pp.tag_video_direction = "90r"
  /\ last.directions = {"90r"}

\* C14: set_caps fails whenever the configured deinterlace method is advanced
\* and the sink pixel format is not one of NV12, YV12, I420; and with a
\* method that is not advanced, or a native sink format, a set_caps none of
\* whose steps fails succeeds.
C14_AdvancedNeedsNative ==
  last.op = "set_caps" =>
    /\ (/\ last.before.deinterlace_method \in
             {"motion-adaptive", "motion-compensated"}
        /\ last.caps.format \notin {"NV12", "YV12", "I420"}) => ~last.ret
    /\ (/\ last.point = "none"
        /\ \/ last.before.deinterlace_method \notin
                {"motion-adaptive", "motion-compensated"}
           \/ last.caps.format \in {"NV12", "YV12", "I420"}) => last.ret

\* motion-compensated deinterlacing of RGBA frames is refused although every
\* step of set_caps would succeed
C14_Witness ==
  /\ last.op = "set_caps"
  /\ last.point = "none"
  /\ last.before.deinterlace_method = "motion-compensated"
  /\ last.caps.format = "RGBA"
  /\ ~last.ret

\* C15: a set_caps that fails leaves the binding as it was (not destroyed,
\* not rebuilt) and leaves the sink and source descriptors, the field
\* duration and the dirty flags unchanged.
C15_FailedSetCapsChangesNothing ==
  (last.op = "set_caps" /\ ~last.ret) =>
    /\ ~last.rebuild.released
    /\ ~last.rebuild.created
    /\ pp.filter = last.before.filter
    /\ pp.sinkpad_info = last.before.sinkpad_info
    /\ pp.srcpad_info = last.before.srcpad_info
    /\ pp.field_duration = last.before.field_duration
    /\ pp.flags = last.before.flags

C17_InvalidBufferFails ==
  (/\ last.op = "transform"
   /\ ~last.buf.valid
   /\ last.paths # <<"base">>) =>
    /\ last.ret = "ERROR"
    /\ last.frames = <<>>
    /\ last.nprocess = 0
    /\ pp.ds = last.ds_before
    /\ pp.flags = last.flags_before

\* a buffer without a surface routed to the hardware path
C17_Witness ==
  /\ last.op = "transform"
  /\ ~last.buf.valid
  /\ last.paths = <<"vpp">>
  /\ last.ret = "ERROR"

\* C18: when the hardware path meets an unsupported configuration, a
\* gst_vaapi_filter_process call that does not succeed or a deinterlacing
\* setup the engine rejects, the call does not end there: the frame goes on
\* to the basic or the passthrough path.
C18_UnsupportedNotFatal ==
  (/\ last.op = "transform"
   /\ Len(last.paths) >= 1
   /\ last.paths[1] = "vpp"
   /\ last.labels[1] \in {"error_process_vpp", "error_op_deinterlace"}) =>
    /\ Len(last.paths) > 1
    /\ last.paths[2] \in {"basic", "passthrough"}

\* C19: when a path cannot get its output buffer or surface from the pool,
\* the call ends there (no later path is tried) with GST_FLOW_ERROR.
C19_PoolFailureIsError ==
  last.op = "transform" =>
    \A i \in 1..Len(last.paths) :
       last.labels[i] \in {"error_create_buffer", "error_create_proxy"} =>
         /\ i = Len(last.paths)
         /\ last.ret = "ERROR"

\* C20: when the push of the first field in the hardware path fails,
\* transform returns the flow return of that push, no other path runs, no
\* frame is handed downstream, and the dirty flags, the configured
\* deinterlace method and the deinterlace history with its deint and tff
\* flags are what they were before the call.
C20_FirstPushFailure ==
  (/\ last.op = "transform"
   /\ Len(last.paths) >= 1
   /\ last.paths[1] = "vpp"
   /\ last.labels[1] = "error_push_buffer") =>
    /\ last.ret = last.rets[1]
    /\ Len(last.paths) = 1
    /\ last.frames = <<>>
    /\ pp.flags = last.flags_before
    /\ pp.deinterlace_method = last.method_before
    /\ pp.ds = last.ds_before

\* C21: when the element does the cropping, the rectangle given to the engine
\* is x = crop-left (+ x of the input's crop meta), y = crop-top (+ y of the
\* crop meta), width = sink width - (crop-left + crop-right), height = sink
\* height - (crop-top + crop-bottom); otherwise it is the render rectangle
\* of the input.  With crop-left = crop-right = 10 on 640x480 it is
\* (10, 0, 620, 480).
C21_CropRectangle ==
  (last.op = "transform" /\ last.nprocess > 0) =>
    IF last.use_vpp_crop
      THEN
        /\ last.crop_rect.x =
             guint(pp.crop_left + (IF last.buf.crop_meta.present
                                     THEN last.buf.crop_meta.x ELSE 0))
        /\ last.crop_rect.y =
             guint(pp.crop_top + (IF last.buf.crop_meta.present
                                    THEN last.buf.crop_meta.y ELSE 0))
        /\ pp.sinkpad_info.width - (pp.crop_left + pp.crop_right) >= 0
        /\ last.crop_rect.width =
             guint(pp.sinkpad_info.width - (pp.crop_left + pp.crop_right))
        /\ pp.sinkpad_info.height - (pp.crop_top + pp.crop_bottom) >= 0
        /\ last.crop_rect.height =
             guint(pp.sinkpad_info.height - (pp.crop_top + pp.crop_bottom))
      ELSE
        /\ last.crop_rect.x = guint(last.buf.render_rect.x)
        /\ last.crop_rect.y = guint(last.buf.render_rect.y)
        /\ last.crop_rect.width = guint(last.buf.render_rect.width)
        /\ last.crop_rect.height = guint(last.buf.render_rect.height)

\* C22: whenever set_caps succeeds and whenever a frame is processed by the
\* engine, crop-left + crop-right < sink width and crop-top + crop-bottom <
\* sink height, so that the width and height of the crop rectangle are
\* neither zero nor wrapped around.
C22_MarginsFit ==
  (\/ last.op = "set_caps" /\ last.ret
   \/ last.op = "transform" /\ last.nprocess > 0 /\ last.use_vpp_crop) =>
    /\ pp.crop_left + pp.crop_right < pp.sinkpad_info.width
    /\ pp.crop_top + pp.crop_bottom < pp.sinkpad_info.height

C24_PointerMapping ==
  (last.op = "src_event" /\ last.ev.has_pointer) =>
    IF pp.has_vpp
      THEN
        LET turned == last.direction \in {"90r", "90l", "ur-ll", "ul-lr"}
            w == IF turned THEN pp.srcpad_info.height ELSE pp.srcpad_info.width
            h == IF turned THEN pp.srcpad_info.width ELSE pp.srcpad_info.height
            cw == pp.sinkpad_info.width - (pp.crop_left + pp.crop_right)
            ch == pp.sinkpad_info.height - (pp.crop_top + pp.crop_bottom)
        IN  /\ last.out.x.den = w /\ last.out.y.den = h
            /\ last.out.x.off = pp.crop_left /\ last.out.y.off = pp.crop_top
            /\ (/\ last.ev.x < pp.srcpad_info.width
                /\ last.ev.y < pp.srcpad_info.height) =>
                 /\ last.out.x.v \in 0..(w - 1)
                 /\ last.out.y.v \in 0..(h - 1)
                 /\ cw > 0 /\ last.out.x.num = guint(cw)
                 /\ ch > 0 /\ last.out.y.num = guint(ch)
      ELSE last.out = [x |-> coordinate(last.ev.x), y |-> coordinate(last.ev.y)]


\* C25: after a set_caps that succeeded, the HDR tone-map flag is set
\* exactly when the hdr-tone-map mode is auto, the sink caps of this
\* negotiation carry mastering-display metadata, the element has an engine
\* and the engine took both the tone-map switch and the metadata; in every
\* other case the flag is clear.
C25_HdrToneMap ==
  (last.op = "set_caps" /\ last.ret) =>
    ("HDR_TONE_MAP" \in pp.flags
       <=> (pp.hdr_tone_map = "auto" /\ last.caps.hdr /\ pp.has_vpp
              /\ last.point \notin {"hdr", "hdr_meta"}))

\* C26: every step that changes the element's shared state (operation
\* values, dirty flags, tag direction) is made by the thread that holds
\* postprocess_lock at that moment.
C26_MutationsUnderLock ==
  [][pp' # pp => last.holder = last'.writer]_vars

\* C27: a dirty bit that one update_filter call cleared belongs to an
\* operation whose value the engine took in that call and whose value is the
\* engine default.
C27_ClearedOnlyAfterPush ==
  (last.op = "fixate_caps" /\ last.attempted) =>
    \A op \in last.flags_before \ pp.flags :
      /\ op \in last.pushed_ops
      /\ IF op = "VIDEO_DIRECTION"
           THEN FilterDefault[op] \in last.directions
           ELSE FilterDefault[op] = op_value(pp, op)

\* the operations update_filter has an engine setter for
C28_UpdateOps ==
  {"FORMAT", "DENOISE", "SHARPEN", "HUE", "SATURATION", "BRIGHTNESS",
   "CONTRAST", "SCALE", "VIDEO_DIRECTION", "SKINTONE_LEVEL"}

\* C28: an update_filter call that returned success pushed the value of
\* every operation that was dirty when it began, video-direction included;
\* a rejected push makes it return failure.
C28_SuccessMeansAllPushed ==
  (last.op = "fixate_caps" /\ last.attempted /\ last.apply_ok) =>
    (last.flags_before \cap C28_UpdateOps) \subseteq last.pushed_ops

\* C29: check_filter_update is TRUE exactly when a dirty bit is set.
C29_CheckIffDirty ==
  check_filter_update(pp) <=> pp.flags # {}

\* the history holds a buffer in every slot
C30_Full(ds) == \A i \in DOMAIN ds.buffers : ds.buffers[i].present

\* the transform call in last added its buffer to a history that was full
C30_AddedToFull ==
  /\ last.op = "transform"
  /\ C30_Full(last.ds_before)
  /\ C30_Full(pp.ds)
  /\ pp.ds.buffers_index # last.ds_before.buffers_index

\* C30: the history's write index stays inside its DS_CAPACITY slots, the
\* number of reference surfaces counted and handed to the engine is at most
\* DS_CAPACITY, and a buffer added to a full history takes the slot of the
\* oldest entry, the other slots staying as they were.
C30_HistoryBounded ==
  /\ DOMAIN pp.ds.buffers = 0..(DS_CAPACITY - 1)
  /\ pp.ds.buffers_index \in 0..(DS_CAPACITY - 1)
  /\ pp.ds.num_surfaces <= DS_CAPACITY
  /\ last.op = "transform" => Len(last.refs) <= DS_CAPACITY
  /\ C30_AddedToFull =>
       LET oldest == last.ds_before.buffers_index
       IN  /\ last.ds_before.buffers[oldest]
                = ds_get_buffer(last.ds_before, DS_CAPACITY - 1)
           /\ pp.ds.buffers[oldest]
                = [present |-> TRUE, tff |-> last.buf.tff,
                   discont |-> last.buf.discont, pts |-> last.buf.pts]
           /\ \A i \in DOMAIN pp.ds.buffers \ {oldest} :
                pp.ds.buffers[i] = last.ds_before.buffers[i]

\* a frame was added to a full history whose oldest and newest entries and
\* the new frame are not all alike, and the engine was handed DS_CAPACITY
\* reference surfaces
C30_Witness ==
  /\ C30_AddedToFull
  /\ Len(last.refs) = DS_CAPACITY
  /\ last.ds_before.buffers[0] # last.ds_before.buffers[1]
  /\ pp.ds.buffers[last.ds_before.buffers_index]
       # last.ds_before.buffers[last.ds_before.buffers_index]

\* C31: the references supplied for a frame are the frames recorded since
\* the last history reset, newest first, cut to DS_CAPACITY; the count the
\* second field's call passes is that of the first field's list; the frame
\* being processed is not among them.
C31_ReferencesAreRecentFrames ==
  (last.op = "history" /\ last.gathered) =>
    /\ last.refs
         = SubSeq(last.prior, 1,
                  IF Len(last.prior) < DS_CAPACITY
                    THEN Len(last.prior) ELSE DS_CAPACITY)
    /\ pp.ds.num_surfaces = Len(last.refs)
    /\ \A i \in 1..Len(last.refs) : last.refs[i].pts # last.buf.pts
    /\ \A i \in 1..(Len(last.refs) - 1) :
         last.refs[i].pts > last.refs[i + 1].pts

\* a frame was supplied DS_CAPACITY references out of more recorded frames
C31_Witness ==
  /\ last.op = "history" /\ last.gathered
  /\ Len(last.prior) > DS_CAPACITY
  /\ Len(last.refs) = DS_CAPACITY

\* the history holds nothing: no entry, write cursor 0, surface count 0
C32_Empty(ds) ==
  /\ \A i \in DOMAIN ds.buffers : ds.buffers[i] = NoBuffer
  /\ ds.buffers_index = 0
  /\ ds.num_surfaces = 0

\* the history holds the frame in last and nothing else
C32_OnlyThisFrame(ds) ==
  /\ ds.buffers = [i \in 0..(DS_CAPACITY - 1) |->
                     IF i = 0 THEN [present |-> TRUE, tff |-> last.buf.tff,
                                    discont |-> last.buf.discont,
                                    pts |-> last.buf.pts]
                     ELSE NoBuffer]
  /\ ds.buffers_index = 1 % DS_CAPACITY
  /\ ds.num_surfaces = 0

\* the frame in last entered the hardware path with a decision other than
\* that of the frame that entered it before
C32_DecisionFlipped ==
  /\ last.op = "history" /\ last.did = "frame" /\ last.entered
  /\ last.hw_before.seen
  /\ last.deint # last.hw_before.deint

\* C32: the history is empty after start, after stop and after a set_caps
\* that rebuilt the binding; a frame whose deinterlacing decision differs
\* from that of the previous hardware-path frame is given no references and
\* leaves a history that holds at most that frame.
C32_HistoryEmptied ==
  last.op = "history" =>
    /\ last.did \in {"start", "stop"} => C32_Empty(pp.ds)
    /\ (last.did = "set_caps" /\ last.changed) => C32_Empty(pp.ds)
    /\ C32_DecisionFlipped =>
         /\ last.refs = <<>>
         /\ IF last.recorded THEN C32_OnlyThisFrame(pp.ds)
            ELSE C32_Empty(pp.ds)

\* a frame whose decision flipped found frames in the history
C32_Witness ==
  /\ last.op = "history"
  /\ \E i \in DOMAIN last.ds_before.buffers : last.ds_before.buffers[i].present
  /\ C32_DecisionFlipped

\* C33: after an update_filter call that pushed the skin-tone level, the
\* dirty bit of the deprecated skin-tone switch is clear and the switch's
\* value was not pushed in that call.
C33_LevelSupersedesSwitch ==
  (last.op = "fixate_caps" /\ last.attempted
     /\ "SKINTONE_LEVEL" \in last.flags_before
     /\ "SKINTONE_LEVEL" \in last.pushed_ops) =>
    /\ "SKINTONE" \notin pp.flags
    /\ "SKINTONE" \notin last.pushed_ops

\* the level was pushed while the switch was dirty with a value other than
\* the engine default
C33_Witness ==
  /\ last.op = "fixate_caps" /\ last.attempted
  /\ {"SKINTONE_LEVEL", "SKINTONE"} \subseteq last.flags_before
  /\ "SKINTONE_LEVEL" \in last.pushed_ops
  /\ pp.skintone_enhance # FilterDefault["SKINTONE"]

\* the four crop margins are zero
C34_MarginsZero ==
  pp.crop_left = 0 /\ pp.crop_right = 0 /\ pp.crop_top = 0 /\ pp.crop_bottom = 0

\* C34: after the apply step of fixate_caps the crop dirty bit is clear when
\* the four margins are zero, and it is still set when it was set and a
\* margin is not zero.
C34_CropBitFollowsMargins ==
  last.op = "fixate_caps" =>
    /\ C34_MarginsZero => "CROP" \notin pp.flags
    /\ (~C34_MarginsZero /\ "CROP" \in last.flags_before) => "CROP" \in pp.flags

\* C35: once the setter, the colour-balance and the tag-event calls have all
\* returned, every operation whose value one of them stored has its dirty
\* bit set (nothing applies pending work in between).
C35_NoDirtyBitLost ==
  (last.op = "threads" /\ last.app.pc = "idle" /\ last.balance.pc = "idle"
     /\ last.stream.pc = "idle") =>
    /\ pp.denoise_level # gst_vaapipostprocess_init.denoise_level
         => "DENOISE" \in pp.flags
    /\ pp.hue # gst_vaapipostprocess_init.hue => "HUE" \in pp.flags
    /\ pp.saturation # gst_vaapipostprocess_init.saturation
         => "SATURATION" \in pp.flags
    /\ pp.tag_video_direction # gst_vaapipostprocess_init.tag_video_direction
         => "VIDEO_DIRECTION" \in pp.flags

C37_HasVppImpliesFilter == pp.has_vpp => pp.filter

\* C38: after every step of the element, a history whose deint flag is FALSE
\* holds no buffer and no reference count; a frame is recorded only when it
\* was deinterlaced with an advanced method and process_vpp returned OK;
\* a step that takes the flag from TRUE to FALSE leaves the history empty.
C38_FlagFalseMeansEmpty ==
  last.op = "history" =>
    /\ ~pp.ds.deint =>
         /\ \A i \in DOMAIN pp.ds.buffers : ~pp.ds.buffers[i].present
         /\ pp.ds.num_surfaces = 0
    /\ last.recorded =>
         /\ last.deint
         /\ deint_method_is_advanced(pp.deinterlace_method)
         /\ last.vpp_ret = "OK"
    /\ (last.did = "frame" /\ last.ds_before.deint /\ ~pp.ds.deint) =>
         C32_Empty(pp.ds)

\* a frame that was not deinterlaced came after recorded frames and took the
\* flag to FALSE
C38_Witness ==
  /\ last.op = "history" /\ last.did = "frame"
  /\ last.ds_before.deint /\ ~pp.ds.deint
  /\ \E i \in DOMAIN last.ds_before.buffers : last.ds_before.buffers[i].present

\* the rectangle lies inside a frame of the given extent, in 32-bit unsigned
\* values taken as the numbers they stand for
C39_Inside(crop, width, height) ==
  /\ crop.x.hi = 0 /\ crop.y.hi = 0 /\ crop.width.hi = 0 /\ crop.height.hi = 0
  /\ crop.x.lo + crop.width.lo <= width
  /\ crop.y.lo + crop.height.lo <= height

\* what the rotation of a rectangle inside a W x H frame is when no
\* difference wraps: every coordinate computed in the integers
C39_Rotated(direction, W, H, crop) ==
  LET x == crop.x.lo
      y == crop.y.lo
      w == crop.width.lo
      h == crop.height.lo
      rect(a, b, c, d) == [x |-> guint(a), y |-> guint(b), width |-> guint(c),
                           height |-> guint(d)]
  IN  IF direction = "horiz" THEN rect(W - w - x, y, w, h)
      ELSE IF direction = "vert" THEN rect(x, H - h - y, w, h)
      ELSE IF direction = "90r" THEN rect(H - h - y, x, h, w)
      ELSE IF direction = "180" THEN rect(W - w - x, H - h - y, w, h)
      ELSE IF direction = "90l" THEN rect(y, W - w - x, h, w)
      ELSE IF direction = "ur-ll" THEN rect(H - h - y, W - w - x, h, w)
      ELSE IF direction = "ul-lr" THEN rect(y, x, h, w)
      ELSE crop

\* C39: for a rectangle inside the frame, rotate_crop_meta gives for each
\* direction the rectangle whose coordinates are the differences taken in the
\* integers (no difference wraps below zero), and that rectangle lies inside
\* the output frame, whose extents are exchanged for 90R, 90L and the two
\* diagonal flips; horiz, vert and 180 applied twice give back the rectangle
\* they started from.
C39_RotationStaysInside ==
  (last.op = "crop_meta" /\ pp.has_vpp /\ last.first.present) =>
    /\ (/\ Len(last.applied) = 1
        /\ C39_Inside(last.original, last.first.width, last.first.height)) =>
         /\ last.crop = C39_Rotated(last.applied[1][1], last.first.width,
                                    last.first.height, last.original)
         /\ C39_Inside(last.crop, last.frame.width, last.frame.height)
    /\ (/\ Len(last.applied) = 2
        /\ last.applied[1][1] = last.applied[2][1]
        /\ last.applied[1][1] \in {"horiz", "vert", "180"}) =>
         last.crop = last.original

\* a 620x8 rectangle at (10, 6) of a 640x480 frame under the flip about the
\* upper-right to lower-left diagonal: 8x620 at (466, 10) of a 480x640 frame
C39_Witness ==
  /\ last.op = "crop_meta" /\ pp.has_vpp
  /\ last.applied = << <<"ur-ll", "frame">> >>
  /\ last.first = [present |-> TRUE, width |-> 640, height |-> 480]
  /\ last.original = [x |-> guint(10), y |-> guint(6), width |-> guint(620),
                      height |-> guint(8)]
  /\ last.crop = [x |-> guint(466), y |-> guint(10), width |-> guint(8),
                  height |-> guint(620)]
  /\ last.frame = [present |-> TRUE, width |-> 480, height |-> 640]

\* how advanced a deinterlace method is
C40_Rank(method) ==
  IF method = "motion-compensated" THEN 3
  ELSE IF method = "motion-adaptive" THEN 2
  ELSE IF method = "bob" THEN 1
  ELSE 0

\* C40: a frame for which set_best_deint_method settled on a method leaves
\* that method in deinterlace_method, the downgraded one when it downgraded;
\* with no set_property in between, the method a frame starts from is not
\* more advanced than the one applied last; a frame that leaves bob as the
\* method was given no references and is not recorded in the history.
C40_DowngradeIsKept ==
  (last.op = "history" /\ last.did = "frame") =>
    /\ last.frame_applied # "" => pp.deinterlace_method = last.frame_applied
    /\ last.frame_applied = "" => pp.deinterlace_method = last.method_before
    /\ last.applied_before # "" =>
         C40_Rank(last.method_before) <= C40_Rank(last.applied_before)
    /\ pp.deinterlace_method = "bob" =>
         /\ last.refs = <<>>
         /\ ~last.gathered
         /\ ~last.recorded

\* a frame was downgraded from motion-adaptive to bob after an earlier frame
\* had been downgraded to motion-adaptive and frames had been recorded
C40_Witness ==
  /\ last.op = "history" /\ last.did = "frame"
  /\ last.applied_before = "motion-adaptive"
  /\ last.method_before = "motion-adaptive"
  /\ last.frame_applied = "bob"
  /\ last.prior # <<>>
====
